---- MODULE Spec2Model ----
(***************************************************************************)
(* Model of the image analysis gateway of meter-machine-vision-web-app:    *)
(* the OCR route (src/app/api/ocr/route.ts) and the vision-model route     *)
(* (src/app/api/openai/route.ts).                                          *)
(*                                                                         *)
(* Conventions.  A string the code only passes around or compares as a     *)
(* whole is a TLA+ string.  An error message is a sequence of tokens, so   *)
(* that startsWith / includes / template interpolation are computed.  A    *)
(* text the OCR adapter assembles is a sequence of characters.  One        *)
(* behaviour follows one route module; an action is the code between two   *)
(* suspension points (await) of the handler.                               *)
(***************************************************************************)
EXTENDS Integers, Sequences, FiniteSets, TLC

VARIABLES route, cfg, pc, req, responses, netCalls, clientsBuilt, trail, upstream,
          ocrData, ocrLines, ocrPc,
          aiReply, aiFields, aiPc,
          pxFile, pxBinarize, pxCanvasKind, pxData, pxResult, pxPc, pxPass, pxFirst,
          flights,
          ui, readers, fetches

vars == <<route, cfg, pc, req, responses, netCalls, clientsBuilt, trail, upstream,
          ocrData, ocrLines, ocrPc,
          aiReply, aiFields, aiPc,
          pxFile, pxBinarize, pxCanvasKind, pxData, pxResult, pxPc, pxPass, pxFirst,
          flights,
          ui, readers, fetches>>

gatewayVars == <<route, cfg, pc, req, responses, netCalls, clientsBuilt, trail, upstream>>

ocrVars == <<ocrData, ocrLines, ocrPc>>

replyVars == <<aiReply, aiFields, aiPc>>

\* What the actions of one specification leave alone.
pixelVars == <<pxFile, pxBinarize, pxCanvasKind, pxData, pxResult, pxPc, pxPass, pxFirst>>

clientVars == <<ui, readers, fetches>>

besidesGateway == <<ocrVars, replyVars, pixelVars, flights, clientVars>>

besidesOcr == <<gatewayVars, replyVars, pixelVars, flights, clientVars>>

besidesReply == <<gatewayVars, ocrVars, pixelVars, flights, clientVars>>

besidesPixel == <<gatewayVars, ocrVars, replyVars, flights, clientVars>>

\* A client component uses route and cfg of the gateway's variables: the
\* route it posts to and the configuration of the server that answers.
besidesClient == <<pc, req, responses, netCalls, clientsBuilt, trail, upstream,
                   ocrVars, replyVars, pixelVars, flights>>

\* With several requests in flight only route and cfg are used of the gateway's variables.
besidesFlights == <<pc, req, responses, netCalls, clientsBuilt, trail, upstream, ocrVars, replyVars, pixelVars,
                    clientVars>>

----------------------------------------------------------------------------
(* Generic helpers on sequences (JavaScript string operations on tokens).  *)

StartsWith(s, p) == Len(p) <= Len(s) /\ SubSeq(s, 1, Len(p)) = p

Includes(s, p) == \E i \in 1..(Len(s) + 1) : i + Len(p) - 1 <= Len(s) /\ SubSeq(s, i, i + Len(p) - 1) = p

HasToken(s, t) == \E i \in 1..Len(s) : s[i] = t

----------------------------------------------------------------------------
(* Environment and module-level constants.                                 *)

UNSET == "<undefined>"

EMPTY == ""

Truthy(v) == v /= UNSET /\ v /= EMPTY

SecretValues == {"valA", "valB"}

OcrEnvValues == {UNSET, EMPTY} \cup SecretValues

AiEnvValues == {UNSET} \cup SecretValues

ProviderEnvValues == {UNSET, EMPTY, "azure", "openai", "azure-vision"}

MAX_FILE_SIZE_MB == 4

MAX_FILE_SIZE_BYTES == MAX_FILE_SIZE_MB * 1024 * 1024

Routes == {"ocr", "openai"}

OcrConfigs == [AZURE_ENDPOINT : OcrEnvValues, AZURE_KEY : OcrEnvValues]

AiConfigs == [OPENAI_PROVIDER_ENV : ProviderEnvValues,
              AZURE_OPENAI_ENDPOINT : AiEnvValues,
              AZURE_OPENAI_API_KEY : AiEnvValues,
              AZURE_OPENAI_DEPLOYMENT_NAME : AiEnvValues,
              AZURE_OPENAI_API_VERSION : AiEnvValues,
              OPENAI_API_KEY : AiEnvValues]

OPENAI_PROVIDER(c) == IF Truthy(c.OPENAI_PROVIDER_ENV) THEN c.OPENAI_PROVIDER_ENV ELSE "azure"

----------------------------------------------------------------------------
(* Messages, as token sequences.                                           *)

MsgOcrNotConfigured == <<"OCR", "service", "is", "not", "configured", "correctly", ".">>

MsgServerConfigError == <<"Server", "configuration", "error", ".">>

MsgNoImage == <<"No", "image", "file", "uploaded", ".">>

MsgInvalidType == <<"Invalid", "file", "type", ".", "Please", "select", "an", "image", ".">>

MsgFileSize == <<"File", "size", "exceeds", "the", "limit", "of", "4", "MB", ".">>

MsgParsing == <<"Error", "parsing", "uploaded", "file", "data", ".">>

MsgUnexpected == <<"An", "unexpected", "error", "occurred", "during", "image", "processing", ".">>

StatusText(s) == CASE s = 401 -> "401" [] s = 429 -> "429" [] s = 500 -> "500" [] OTHER -> "status"

MsgOcrRequestFailed(status) == <<"Azure", "OCR", "request", "failed", ":", StatusText(status)>>

MsgOcrCommunicating == <<"Error", "communicating", "with", "OCR", "service", ".">>

MsgOcrFailedProcess == <<"Failed", "to", "process", "image", "with", "Azure", "OCR", ".">>

MsgAzureConfigMissing == <<"Server", "configuration", "error", ":", "Azure", "OpenAI", "credentials", "missing", ".">>

MsgOpenAIKeyMissing == <<"Server", "configuration", "error", ":", "Standard", "OpenAI", "API", "Key", "missing", ".">>

MsgInvalidProvider == <<"Server", "configuration", "error", ":", "Invalid", "AI", "provider", "specified", ".">>

MsgNoValidResponse == <<"Failed", "to", "get", "a", "valid", "response", "from", "AI", "model", ".">>

MsgApiError(providerName, detail) == providerName \o <<"API", "Error", ":">> \o detail

MsgAiFailedProcess(providerName) == <<"Failed", "to", "process", "image", "with">> \o providerName \o <<".">>

----------------------------------------------------------------------------
(* Request inputs.                                                         *)

MimeTypes == {<<"image", "/", "png">>, <<"image", "/", "jpeg">>, <<"text", "/", "plain">>, <<>>}

FileSizes == {1024, MAX_FILE_SIZE_BYTES, MAX_FILE_SIZE_BYTES + 1, 5 * 1024 * 1024}

Files == [type : MimeTypes, size : FileSizes]

FormDataErrors == {<<"Failed", "to", "parse", "body", "as", "FormData", ".">>,
                   <<"Unexpected", "end", "of", "form">>,
                   <<>>}

Bodies == {[kind |-> "reject", error |-> e] : e \in FormDataErrors}
            \cup {[kind |-> "form", hasImage |-> FALSE]}
            \cup {[kind |-> "form", hasImage |-> TRUE, file |-> f] : f \in Files}

Requests == {[useMock |-> m, body |-> b] : m \in BOOLEAN, b \in Bodies}

NoRequest == [useMock |-> FALSE, body |-> [kind |-> "none"]]

isFileTypeValid(file) == StartsWith(file.type, <<"image", "/">>)

\* A size check that compares whole megabytes: Math.floor(size / 2^20) <= 4.
isFileSizeValidWholeMB(file) == file.size \div (1024 * 1024) <= MAX_FILE_SIZE_MB

isFileSizeValid(file) == file.size <= MAX_FILE_SIZE_BYTES

----------------------------------------------------------------------------
(* OCR adapter: the provider's JSON and its parsing (ocr/route.ts 54-87).  *)

Space == " "

\* The white space that trim(), JSON.parse and \\s know, of the characters used here.
WhiteSpace == {Space, "\n"}

UndefinedText == <<"u", "n", "d", "e", "f", "i", "n", "e", "d">>

RECURSIVE TrimStart(_)
TrimStart(s) == IF s /= <<>> /\ Head(s) \in WhiteSpace THEN TrimStart(Tail(s)) ELSE s

RECURSIVE TrimEnd(_)
TrimEnd(s) == IF s /= <<>> /\ s[Len(s)] \in WhiteSpace THEN TrimEnd(SubSeq(s, 1, Len(s) - 1)) ELSE s

Trim(s) == TrimEnd(TrimStart(s))

WordText(word) == IF "text" \in DOMAIN word THEN word.text ELSE UndefinedText

RECURSIVE ConcatWords(_)
ConcatWords(words) ==
    IF words = <<>> THEN <<>>
    ELSE WordText(Head(words)) \o <<Space>> \o ConcatWords(Tail(words))

\* A line text that keeps the space appended after its last word.
LineTextNoTrim(line) == ConcatWords(line.words)

LineText(line) == Trim(ConcatWords(line.words))

RECURSIVE BlockLines(_)
BlockLines(lines) ==
    IF lines = <<>> THEN <<>>
    ELSE <<LineText(Head(lines))>> \o BlockLines(Tail(lines))

RECURSIVE AllLines(_)
AllLines(blocks) ==
    IF blocks = <<>> THEN <<>>
    ELSE BlockLines(Head(blocks).lines) \o AllLines(Tail(blocks))

\* A reader without the "|| []" default: the forEach of line 61 then throws
\* on a response that has no readResult.blocks.
ReadBlocksNoDefault(data) ==
    IF "readResult" \in DOMAIN data /\ "blocks" \in DOMAIN data.readResult
    THEN data.readResult.blocks
    ELSE << [undefinedBlocks |-> TRUE] >>

ReadBlocks(data) ==
    IF "readResult" \in DOMAIN data /\ "blocks" \in DOMAIN data.readResult
    THEN data.readResult.blocks
    ELSE <<>>

ShapeOk(blocks) ==
    \A i \in 1..Len(blocks) :
        /\ "lines" \in DOMAIN blocks[i]
        /\ \A j \in 1..Len(blocks[i].lines) : "words" \in DOMAIN blocks[i].lines[j]

MsgTypeError == <<"Cannot", "read", "properties", "of", "undefined">>

ProcessOcrResponse(data) ==
    LET blocks == ReadBlocks(data)
    IN  IF ShapeOk(blocks)
        THEN [ok |-> TRUE, lines |-> AllLines(blocks)]
        ELSE [ok |-> FALSE, error |-> MsgTypeError]

----------------------------------------------------------------------------
(* Responses and the two mock payloads.                                    *)

JsonResponse(body, status) == [status |-> status, body |-> body]

\* An error response built without its { status } argument: NextResponse.json defaults to 200.
ErrorResponseDefaultStatus(message, status) == JsonResponse([error |-> message], 200)

ErrorResponse(message, status) == JsonResponse([error |-> message], status)

ResultsResponse(results) == JsonResponse([results |-> results], 200)

MockOcrResults == <<"Mock Server-Side (App Router / formData) OCR Result 1",
                    "Mock Server-Side (App Router / formData) Result Line 2">>

Str(s) == [isNull |-> FALSE, str |-> s]

Null == [isNull |-> TRUE]

MockAiResults ==
    [meterValue |-> Str(<<"M", "O", "C", "K", "_", "1", "2", "3", "4", "5", ".", "6", "7">>),
     serialNumber |-> Str(<<"M", "O", "C", "K", "_", "S", "N", "_", "9", "8", "7", "X", "Y", "Z">>)]

----------------------------------------------------------------------------
(* OCR route: decisions of POST and performServerSideOCR.                  *)

OcrCredentialsMissing(c) == ~Truthy(c.AZURE_ENDPOINT) \/ ~Truthy(c.AZURE_KEY)

\* POST 117-124: the credential check of the handler.
OcrConfigCheck(c) ==
    IF OcrCredentialsMissing(c)
    THEN [ok |-> FALSE, response |-> ErrorResponse(MsgOcrNotConfigured, 500)]
    ELSE [ok |-> TRUE]

\* A handler that looks at the credentials before it looks at the mock flag.
OcrEntryDecisionConfigFirst(useMock, c) ==
    IF ~OcrConfigCheck(c).ok THEN "config"
    ELSE IF useMock THEN "mock"
    ELSE "formData"

\* POST 102-134: what the handler does before its first await resolves.
OcrEntryDecision(useMock, c) ==
    IF useMock THEN "mock"
    ELSE IF ~OcrConfigCheck(c).ok THEN "config"
    ELSE "formData"

\* A validation that forgets the type check.
ValidateUploadNoTypeCheck(body) ==
    IF ~body.hasImage THEN [ok |-> FALSE, response |-> ErrorResponse(MsgNoImage, 400)]
    ELSE IF ~isFileSizeValid(body.file) THEN [ok |-> FALSE, response |-> ErrorResponse(MsgFileSize, 400)]
    ELSE [ok |-> TRUE]

\* POST 139-150: the three checks on the parsed form, in the code's order.
ValidateUpload(body) ==
    IF ~body.hasImage THEN [ok |-> FALSE, response |-> ErrorResponse(MsgNoImage, 400)]
    ELSE IF ~isFileTypeValid(body.file) THEN [ok |-> FALSE, response |-> ErrorResponse(MsgInvalidType, 400)]
    ELSE IF ~isFileSizeValid(body.file) THEN [ok |-> FALSE, response |-> ErrorResponse(MsgFileSize, 400)]
    ELSE [ok |-> TRUE]

\* POST 161-177: the handler's catch.
OcrPostCatch(message) ==
    IF Includes(message, <<"Failed", "to", "parse">>)
    THEN ErrorResponse(MsgParsing, 400)
    ELSE IF \/ StartsWith(message, <<"Azure", "OCR">>)
            \/ StartsWith(message, <<"Failed", "to", "process">>)
            \/ StartsWith(message, <<"Error", "communicating">>)
            \/ StartsWith(message, <<"Server", "configuration", "error">>)
         THEN ErrorResponse(message, 500)
         ELSE ErrorResponse(MsgUnexpected, 500)

\* performServerSideOCR 89-95: the adapter's catch, which rethrows.
OcrAdapterCatch(message) ==
    IF Includes(message, <<"Azure", "OCR", "request", "failed">>)
    THEN MsgOcrCommunicating
    ELSE MsgOcrFailedProcess

UpstreamDetails == {<<"Access", "denied", ":", "subscription", "key", "k-123">>,
                    <<"Quota", "exceeded", "for", "resource", "r-9">>}

OcrSampleWords == <<[text |-> <<"1", "2">>], [text |-> <<"k">>], [text |-> <<"W", "h">>]>>

OcrSampleData ==
    { [modelVersion |-> "2023-10-01"],
      [readResult |-> [metadata |-> "m"]],
      [readResult |-> [blocks |-> <<>>]],
      [readResult |-> [blocks |-> << [lines |-> <<>>], [lines |-> <<>>] >>]],
      [readResult |-> [blocks |-> << [lines |-> << [words |-> OcrSampleWords] >>],
                                     [lines |-> << [words |-> OcrSampleWords] >>] >>]],
      [readResult |-> [blocks |-> << [boundingPolygon |-> "p"] >>]],
      [readResult |-> [blocks |-> << [lines |-> << [boundingPolygon |-> "p"] >>] >>]] }

OcrFetchOutcomes ==
    {[kind |-> "reject", message |-> <<"fetch", "failed">>]}
    \cup {[kind |-> "http", ok |-> FALSE, status |-> s, text |-> t, textOk |-> b] :
             s \in {401, 429}, t \in UpstreamDetails, b \in BOOLEAN}
    \cup {[kind |-> "http", ok |-> TRUE, status |-> 200, json |-> FALSE,
           message |-> <<"Unexpected", "token", "<", "in", "JSON">>]}
    \cup {[kind |-> "http", ok |-> TRUE, status |-> 200, json |-> TRUE, data |-> d] : d \in OcrSampleData}

\* The rejection of response.text() when the body stream of the provider's
\* response breaks off before its end.
MsgTerminated == <<"terminated">>

\* performServerSideOCR 41-95 once fetch has settled: lines, or the rethrown
\* message. On a non-success response line 49 awaits response.text() for the
\* log before line 51 throws; when that await rejects, its error reaches the
\* catch of line 89 in place of the one of line 51.
OcrAdapterResult(outcome) ==
    IF outcome.kind = "reject" THEN [ok |-> FALSE, error |-> OcrAdapterCatch(outcome.message)]
    ELSE IF ~outcome.ok
         THEN IF outcome.textOk
              THEN [ok |-> FALSE, error |-> OcrAdapterCatch(MsgOcrRequestFailed(outcome.status))]
              ELSE [ok |-> FALSE, error |-> OcrAdapterCatch(MsgTerminated)]
    ELSE IF ~outcome.json THEN [ok |-> FALSE, error |-> OcrAdapterCatch(outcome.message)]
    ELSE LET parsed == ProcessOcrResponse(outcome.data)
         IN  IF parsed.ok THEN parsed
             ELSE [ok |-> FALSE, error |-> OcrAdapterCatch(parsed.error)]

----------------------------------------------------------------------------
(* Vision-model route: decisions of POST and performOpenAIAnalysis.        *)

AzureProviderName == <<"Azure", "OpenAI">>

OpenAIProviderName == <<"OpenAI">>

\* A selector whose 'azure' branch forgets to check the API version.
SelectProviderNoVersionCheck(c) ==
    IF OPENAI_PROVIDER(c) = "azure"
    THEN IF \/ ~Truthy(c.AZURE_OPENAI_ENDPOINT)
            \/ ~Truthy(c.AZURE_OPENAI_API_KEY)
            \/ ~Truthy(c.AZURE_OPENAI_DEPLOYMENT_NAME)
         THEN [ok |-> FALSE, error |-> MsgAzureConfigMissing]
         ELSE [ok |-> TRUE, providerName |-> AzureProviderName,
               modelToUse |-> c.AZURE_OPENAI_DEPLOYMENT_NAME]
    ELSE IF OPENAI_PROVIDER(c) = "openai"
    THEN IF ~Truthy(c.OPENAI_API_KEY)
         THEN [ok |-> FALSE, error |-> MsgOpenAIKeyMissing]
         ELSE [ok |-> TRUE, providerName |-> OpenAIProviderName, modelToUse |-> "gpt-4o"]
    ELSE [ok |-> FALSE, error |-> MsgInvalidProvider]

\* A selector that treats every identifier other than 'azure' as 'openai'.
SelectProviderElseOpenAI(c) ==
    IF OPENAI_PROVIDER(c) = "azure"
    THEN IF \/ ~Truthy(c.AZURE_OPENAI_ENDPOINT)
            \/ ~Truthy(c.AZURE_OPENAI_API_KEY)
            \/ ~Truthy(c.AZURE_OPENAI_DEPLOYMENT_NAME)
            \/ ~Truthy(c.AZURE_OPENAI_API_VERSION)
         THEN [ok |-> FALSE, error |-> MsgAzureConfigMissing]
         ELSE [ok |-> TRUE, providerName |-> AzureProviderName,
               modelToUse |-> c.AZURE_OPENAI_DEPLOYMENT_NAME]
    ELSE IF ~Truthy(c.OPENAI_API_KEY)
         THEN [ok |-> FALSE, error |-> MsgOpenAIKeyMissing]
         ELSE [ok |-> TRUE, providerName |-> OpenAIProviderName, modelToUse |-> "gpt-4o"]

\* A selector whose error message names the endpoint it was given.
SelectProviderEchoEndpoint(c) ==
    IF OPENAI_PROVIDER(c) = "azure"
    THEN IF \/ ~Truthy(c.AZURE_OPENAI_ENDPOINT)
            \/ ~Truthy(c.AZURE_OPENAI_API_KEY)
            \/ ~Truthy(c.AZURE_OPENAI_DEPLOYMENT_NAME)
            \/ ~Truthy(c.AZURE_OPENAI_API_VERSION)
         THEN [ok |-> FALSE, error |-> MsgAzureConfigMissing \o <<c.AZURE_OPENAI_ENDPOINT>>]
         ELSE [ok |-> TRUE, providerName |-> AzureProviderName,
               modelToUse |-> c.AZURE_OPENAI_DEPLOYMENT_NAME]
    ELSE IF OPENAI_PROVIDER(c) = "openai"
    THEN IF ~Truthy(c.OPENAI_API_KEY)
         THEN [ok |-> FALSE, error |-> MsgOpenAIKeyMissing]
         ELSE [ok |-> TRUE, providerName |-> OpenAIProviderName, modelToUse |-> "gpt-4o"]
    ELSE [ok |-> FALSE, error |-> MsgInvalidProvider]

\* performOpenAIAnalysis 45-73: the client to use, or the error thrown.
SelectProvider(c) ==
    IF OPENAI_PROVIDER(c) = "azure"
    THEN IF \/ ~Truthy(c.AZURE_OPENAI_ENDPOINT)
            \/ ~Truthy(c.AZURE_OPENAI_API_KEY)
            \/ ~Truthy(c.AZURE_OPENAI_DEPLOYMENT_NAME)
            \/ ~Truthy(c.AZURE_OPENAI_API_VERSION)
         THEN [ok |-> FALSE, error |-> MsgAzureConfigMissing]
         ELSE [ok |-> TRUE, providerName |-> AzureProviderName,
               modelToUse |-> c.AZURE_OPENAI_DEPLOYMENT_NAME]
    ELSE IF OPENAI_PROVIDER(c) = "openai"
    THEN IF ~Truthy(c.OPENAI_API_KEY)
         THEN [ok |-> FALSE, error |-> MsgOpenAIKeyMissing]
         ELSE [ok |-> TRUE, providerName |-> OpenAIProviderName, modelToUse |-> "gpt-4o"]
    ELSE [ok |-> FALSE, error |-> MsgInvalidProvider]

\* POST 197-203: the handler's catch.
AiPostCatch(message) ==
    IF message /= <<>> THEN ErrorResponse(message, 500) ELSE ErrorResponse(MsgUnexpected, 500)

\* POST 192-203 around performOpenAIAnalysis 45-73: the selector's error, as the handler answers it.
AiConfigCheck(c) ==
    LET sel == SelectProvider(c)
    IN  IF sel.ok THEN [ok |-> TRUE]
        ELSE [ok |-> FALSE, response |-> AiPostCatch(sel.error)]

\* The reply of the model is a sequence of characters.  At(s, i) is the
\* character at the 1-based place i, or "" past either end.
At(s, i) == IF i \in 1..Len(s) THEN s[i] ELSE ""

\* The characters at the places i..j, "" standing at a place past the end.
Slice(s, i, j) == [k \in 1..(j - i + 1) |-> At(s, i + k - 1)]

\* The first place from i on that holds no character of cs (Len(s) + 1 if none).
RECURSIVE RunEnd(_, _, _)
RunEnd(s, i, cs) == IF i > Len(s) \/ s[i] \notin cs THEN i ELSE RunEnd(s, i + 1, cs)

\* The first place from i on that holds a character of cs (Len(s) + 1 if none).
RECURSIVE RunEndNot(_, _, _)
RunEndNot(s, i, cs) == IF i > Len(s) \/ s[i] \in cs THEN i ELSE RunEndNot(s, i + 1, cs)

\* String.prototype.substring(start, end): both clamped to 0..length, swapped if start > end.
Substring(s, start, end) ==
    LET Clamp(n) == IF n < 0 THEN 0 ELSE IF n > Len(s) THEN Len(s) ELSE n
        a == Clamp(start)
        b == Clamp(end)
    IN  IF a <= b THEN SubSeq(s, a + 1, b) ELSE SubSeq(s, b + 1, a)

\* The grave accent (U+0060), a character that a TLA+ string cannot hold.
Backtick == "U+0060"

Fence == <<Backtick, Backtick, Backtick>>

FenceJson == Fence \o <<"j", "s", "o", "n">>

\* A cleaner that knows only the untagged fence.
StripFenceUntaggedOnly(content) ==
    IF StartsWith(content, Fence)
    THEN Trim(Substring(content, 3, Len(content) - 3))
    ELSE content

\* performOpenAIAnalysis 121-125.
StripFence(content) ==
    IF StartsWith(content, FenceJson)
    THEN Trim(Substring(content, 7, Len(content) - 3))
    ELSE IF StartsWith(content, Fence)
    THEN Trim(Substring(content, 3, Len(content) - 3))
    ELSE content

\* JSON.parse (line 128), for the JSON texts used here: an object whose
\* members are strings without escapes, numbers without sign or exponent, or
\* null; or one such value alone.  Every other text is a SyntaxError.
Digits == {"0", "1", "2", "3", "4", "5", "6", "7", "8", "9"}

Quote == "\""

JsUndefined == [type |-> "undefined"]

JsNull == [type |-> "null"]

JsString(chars) == [type |-> "string", chars |-> chars]

JsNumber(chars) == [type |-> "number", chars |-> chars]

JsObject(members) == [type |-> "object", members |-> members]

ParseFail == [ok |-> FALSE]

ParseString(s, i) ==
    LET j == RunEndNot(s, i + 1, {Quote, "\n"})
    IN  IF At(s, i) = Quote /\ At(s, j) = Quote
        THEN [ok |-> TRUE, value |-> JsString(SubSeq(s, i + 1, j - 1)), next |-> j + 1]
        ELSE ParseFail

ParseNumber(s, i) ==
    LET j == IF At(s, i) = "0" THEN i + 1 ELSE RunEnd(s, i, Digits)
        k == IF At(s, j) = "." THEN RunEnd(s, j + 1, Digits) ELSE j
    IN  IF j > i /\ (k = j \/ k > j + 1)
        THEN [ok |-> TRUE, value |-> JsNumber(SubSeq(s, i, k - 1)), next |-> k]
        ELSE ParseFail

ParseScalar(s, i) ==
    IF At(s, i) = Quote THEN ParseString(s, i)
    ELSE IF At(s, i) \in Digits THEN ParseNumber(s, i)
    ELSE IF Slice(s, i, i + 3) = <<"n", "u", "l", "l">>
    THEN [ok |-> TRUE, value |-> JsNull, next |-> i + 4]
    ELSE ParseFail

\* The members from place i on, after "{" or ",": key, colon, value, then "," or "}".
RECURSIVE ParseMembers(_, _, _)
ParseMembers(s, i, members) ==
    LET key == ParseString(s, i)
        colon == IF key.ok THEN RunEnd(s, key.next, WhiteSpace) ELSE 0
        val == IF key.ok /\ At(s, colon) = ":"
               THEN ParseScalar(s, RunEnd(s, colon + 1, WhiteSpace))
               ELSE ParseFail
        after == IF val.ok THEN RunEnd(s, val.next, WhiteSpace) ELSE 0
        found == IF val.ok
                 THEN Append(members, [key |-> key.value.chars, value |-> val.value])
                 ELSE members
    IN  IF ~val.ok THEN ParseFail
        ELSE IF At(s, after) = "}"
        THEN [ok |-> TRUE, value |-> JsObject(found), next |-> after + 1]
        ELSE IF At(s, after) = ","
        THEN ParseMembers(s, RunEnd(s, after + 1, WhiteSpace), found)
        ELSE ParseFail

ParseValue(s, i) ==
    IF At(s, i) = "{"
    THEN LET first == RunEnd(s, i + 1, WhiteSpace)
         IN  IF At(s, first) = "}"
             THEN [ok |-> TRUE, value |-> JsObject(<<>>), next |-> first + 1]
             ELSE ParseMembers(s, first, <<>>)
    ELSE ParseScalar(s, i)

JsonParse(text) ==
    LET parsed == ParseValue(text, RunEnd(text, 1, WhiteSpace))
    IN  IF parsed.ok /\ RunEnd(text, parsed.next, WhiteSpace) = Len(text) + 1
        THEN [ok |-> TRUE, value |-> parsed.value]
        ELSE ParseFail

\* parsedJson[key] (lines 130-131): the last member of that name; a string or
\* a number has no such property; null throws a TypeError inside the try.
RECURSIVE GetMember(_, _)
GetMember(members, key) ==
    IF members = <<>> THEN JsUndefined
    ELSE IF members[Len(members)].key = key THEN members[Len(members)].value
    ELSE GetMember(SubSeq(members, 1, Len(members) - 1), key)

GetProperty(value, key) ==
    IF value.type = "object" THEN GetMember(value.members, key) ELSE JsUndefined

Num(s) == [isNull |-> FALSE, num |-> s]

\* "v ?? null" (lines 130-131), as the value that NextResponse.json then writes.
NullishToNull(v) ==
    IF v.type \in {"undefined", "null"} THEN Null
    ELSE IF v.type = "string" THEN Str(v.chars)
    ELSE Num(v.chars)

MeterValueKey == <<"m", "e", "t", "e", "r", "V", "a", "l", "u", "e">>

SerialNumberKey == <<"s", "e", "r", "i", "a", "l", "N", "u", "m", "b", "e", "r">>

ParseErrorText == <<"P", "a", "r", "s", "e", " ", "E", "r", "r", "o", "r">>

UpperLetters == <<"A", "B", "C", "D", "E", "F", "G", "H", "I", "J", "K", "L", "M",
                  "N", "O", "P", "Q", "R", "S", "T", "U", "V", "W", "X", "Y", "Z">>

LowerLetters == <<"a", "b", "c", "d", "e", "f", "g", "h", "i", "j", "k", "l", "m",
                  "n", "o", "p", "q", "r", "s", "t", "u", "v", "w", "x", "y", "z">>

\* The "i" flag of the two patterns: letters compare without case.
FoldCase(c) ==
    IF \E i \in 1..26 : UpperLetters[i] = c
    THEN LowerLetters[CHOOSE i \in 1..26 : UpperLetters[i] = c]
    ELSE c

FoldCaseAll(s) == [i \in 1..Len(s) |-> FoldCase(s[i])]

Quotes == {Quote, "'"}

\* The characters that the capture group [^,"'}]+ refuses.
CaptureStops == {",", Quote, "'", "}"}

\* A match of  key["']?\s*:\s*["']?([^,"'}]+)  that starts at place p (lines
\* 138-139).  Up to the colon nothing can be given back.  After it \s* and
\* ["']? take all they can; if the capture then finds no character, the
\* engine gives back the last white space character and captures it alone.
MatchAt(s, p, key) ==
    LET a == p + Len(key)
        b == IF At(s, a) \in Quotes THEN a + 1 ELSE a
        c == RunEnd(s, b, WhiteSpace)
        d == RunEnd(s, c + 1, WhiteSpace)
        e == IF At(s, d) \in Quotes THEN d + 1 ELSE d
        f == RunEndNot(s, e, CaptureStops)
    IN  IF FoldCaseAll(Slice(s, p, a - 1)) /= FoldCaseAll(key) \/ At(s, c) /= ":" THEN [ok |-> FALSE]
        ELSE IF f > e THEN [ok |-> TRUE, group |-> SubSeq(s, e, f - 1)]
        ELSE IF d > c + 1 THEN [ok |-> TRUE, group |-> <<s[d - 1]>>]
        ELSE [ok |-> FALSE]

\* content.match(pattern): the leftmost match from place p on, or null.
RECURSIVE MatchFrom(_, _, _)
MatchFrom(s, p, key) ==
    IF p > Len(s) THEN [ok |-> FALSE]
    ELSE IF FoldCase(s[p]) = FoldCase(key[1]) /\ MatchAt(s, p, key).ok THEN MatchAt(s, p, key)
    ELSE MatchFrom(s, p + 1, key)

Match(s, key) == MatchFrom(s, 1, key)

\* A fallback that answers null for a name it does not find.
FallbackFieldNull(content, key) ==
    LET m == Match(content, key)
    IN  IF m.ok THEN Str(Trim(m.group)) ELSE Null

\* Lines 138-143: one field of the fallback result.
FallbackField(content, key) ==
    LET m == Match(content, key)
    IN  IF m.ok THEN Str(Trim(m.group)) ELSE Str(ParseErrorText)

\* performOpenAIAnalysis 117-144: the fields read from the reply's content.
ExtractFields(rawContent) ==
    LET content == StripFence(Trim(rawContent))
        parsed == JsonParse(content)
    IN  IF parsed.ok /\ parsed.value.type /= "null"
        THEN [meterValue |-> NullishToNull(GetProperty(parsed.value, MeterValueKey)),
              serialNumber |-> NullishToNull(GetProperty(parsed.value, SerialNumberKey))]
        ELSE [meterValue |-> FallbackField(content, MeterValueKey),
              serialNumber |-> FallbackField(content, SerialNumberKey)]

\* Texts of replies: a JSON object is written from its members, in order.
JsonStringText(chars) == <<Quote>> \o chars \o <<Quote>>

MemberText(key, valueText) == JsonStringText(key) \o <<":">> \o valueText

RECURSIVE JoinTexts(_, _)
JoinTexts(texts, sep) ==
    IF texts = <<>> THEN <<>>
    ELSE IF Len(texts) = 1 THEN texts[1]
    ELSE texts[1] \o sep \o JoinTexts(Tail(texts), sep)

ObjectText(memberTexts) == <<"{">> \o JoinTexts(memberTexts, <<",">>) \o <<"}">>

NullText == <<"n", "u", "l", "l">>

ExampleObjectText ==
    ObjectText(<< MemberText(MeterValueKey, JsonStringText(<<"1", "2", "3", ".", "4">>)),
                  MemberText(SerialNumberKey, JsonStringText(<<"S", "N", "1">>)) >>)

MeterOnlyText == MeterValueKey \o <<":", " ", "4", "2">>

NoFieldText == <<"N", "o", " ", "m", "e", "t", "e", "r", " ", "v", "i", "s", "i", "b", "l", "e">>

\* The example object cut before its closing brace.
CutObjectText == SubSeq(ExampleObjectText, 1, Len(ExampleObjectText) - 1)

\* Replies that the chat call may resolve with in the gateway: the example
\* object bare and fenced, an object with a null, and texts that are no JSON.
AiSampleContents ==
    { ExampleObjectText,
      FenceJson \o <<"\n">> \o ExampleObjectText \o <<"\n">> \o Fence,
      ObjectText(<< MemberText(MeterValueKey, NullText),
                    MemberText(SerialNumberKey, JsonStringText(<<"S", "N", "1">>)) >>),
      MeterOnlyText,
      NoFieldText,
      CutObjectText }

AiCallOutcomes ==
    {[kind |-> "reject", message |-> <<"429", "Too", "Many", "Requests">>, detail |-> <<>>]}
    \cup {[kind |-> "reject", message |-> <<"Request", "failed">>, detail |-> d] : d \in UpstreamDetails}
    \cup {[kind |-> "resolve", hasChoice |-> FALSE]}
    \cup {[kind |-> "resolve", hasChoice |-> TRUE, hasContent |-> FALSE]}
    \cup {[kind |-> "resolve", hasChoice |-> TRUE, hasContent |-> TRUE, content |-> k] : k \in AiSampleContents}

\* performOpenAIAnalysis 146-152: the adapter's catch, which rethrows.  The
\* error caught has a message and, when the provider sent one, the detail
\* error.response.data.error.message (empty when there is none).
AiAdapterCatch(providerName, error) ==
    IF error.detail /= <<>>
    THEN MsgApiError(providerName, error.detail)
    ELSE MsgAiFailedProcess(providerName)

\* An adapter that takes a choice without content for a reply with no fields.
AiAdapterResultLenient(providerName, outcome) ==
    IF outcome.kind = "reject"
    THEN [ok |-> FALSE, error |-> AiAdapterCatch(providerName, outcome)]
    ELSE IF ~outcome.hasChoice
    THEN [ok |-> FALSE,
          error |-> AiAdapterCatch(providerName, [message |-> MsgNoValidResponse, detail |-> <<>>])]
    ELSE IF ~outcome.hasContent
    THEN [ok |-> TRUE, results |-> [meterValue |-> Null, serialNumber |-> Null]]
    ELSE [ok |-> TRUE, results |-> ExtractFields(outcome.content)]

\* performOpenAIAnalysis 102-152 once the chat call has settled.
AiAdapterResult(providerName, outcome) ==
    IF outcome.kind = "reject"
    THEN [ok |-> FALSE, error |-> AiAdapterCatch(providerName, outcome)]
    ELSE IF ~outcome.hasChoice \/ ~outcome.hasContent
    THEN [ok |-> FALSE,
          error |-> AiAdapterCatch(providerName, [message |-> MsgNoValidResponse, detail |-> <<>>])]
    ELSE [ok |-> TRUE, results |-> ExtractFields(outcome.content)]

----------------------------------------------------------------------------
(* preprocessImage (unnamed/part_000): the arithmetic of the pixel loop.   *)
(* 0.3 * r + 0.59 * g + 0.11 * b is computed in IEEE 754 doubles.  A double *)
(* of this computation is held exactly, as a whole number of units of      *)
(* 2^-56 written in three limbs <<low, middle, high>> of 22 bits:  every   *)
(* value met is below 2^8 and is a multiple of 2^-56.                       *)

Limb == 4194304

\* The doubles nearest to 0.3, 0.59 and 0.11 (3FD3333333333333,
\* 3FE2E147AE147AE1 and 3FBC28F5C28F5C29).
RedWeight == <<838860, 3355443, 1228>>

GreenWeight == <<2348808, 2684354, 2416>>

BlueWeight == <<1006633, 2348810, 450>>

\* The double 128, the threshold of line 30.
Threshold == <<0, 0, 524288>>

BigNorm(x) ==
    LET b == x[2] + (x[1] \div Limb)
        c == x[3] + (b \div Limb)
    IN  <<x[1] % Limb, b % Limb, c>>

BigAdd(x, y) == BigNorm(<<x[1] + y[1], x[2] + y[2], x[3] + y[3]>>)

\* x times a whole number n of at most 255.
BigScale(x, n) == BigNorm(<<x[1] * n, x[2] * n, x[3] * n>>)

RECURSIVE BitLen(_)
BitLen(n) == IF n = 0 THEN 0 ELSE 1 + BitLen(n \div 2)

BitLength(x) ==
    IF x[3] > 0 THEN 44 + BitLen(x[3])
    ELSE IF x[2] > 0 THEN 22 + BitLen(x[2])
    ELSE BitLen(x[1])

RECURSIVE Pow2(_)
Pow2(d) == IF d = 0 THEN 1 ELSE 2 * Pow2(d - 1)

\* Rounding of an exact result to the 53 significant bits of a double, to
\* nearest, ties to even.  At most 11 low bits are dropped here.
RoundDouble(x) ==
    LET d == BitLength(x) - 53
        p == Pow2(d)
        rem == x[1] % p
        down == <<x[1] - rem, x[2], x[3]>>
        up == BigNorm(<<x[1] - rem + p, x[2], x[3]>>)
    IN  IF d <= 0 THEN x
        ELSE IF 2 * rem < p THEN down
        ELSE IF 2 * rem > p THEN up
        ELSE IF (x[1] \div p) % 2 = 0 THEN down ELSE up

\* weight * n and x + y of line 27, each rounded once.
FMul(weight, n) == RoundDouble(BigScale(weight, n))

FAdd(x, y) == RoundDouble(BigAdd(x, y))

\* Line 27: const gray = 0.3 * r + 0.59 * g + 0.11 * b.
Gray(r, g, b) == FAdd(FAdd(FMul(RedWeight, r), FMul(GreenWeight, g)), FMul(BlueWeight, b))

\* x > y on doubles.
Greater(x, y) ==
    \/ x[3] > y[3]
    \/ x[3] = y[3] /\ x[2] > y[2]
    \/ x[3] = y[3] /\ x[2] = y[2] /\ x[1] > y[1]

\* The store of a double into a Uint8ClampedArray (lines 34-35): the nearest
\* whole number, ties to even; the values here lie in 0..255.
ToUint8Clamp(x) ==
    LET f == x[3] \div 4096
        top == x[3] % 4096
    IN  IF top > 2048 \/ (top = 2048 /\ (x[2] > 0 \/ x[1] > 0)) THEN f + 1
        ELSE IF top < 2048 THEN f
        ELSE IF f % 2 = 0 THEN f ELSE f + 1

\* A threshold that takes gray = 128 for white.
ChannelValueAtLeast(r, g, b, binarize) ==
    IF binarize
    THEN (IF ~Greater(Threshold, Gray(r, g, b)) THEN 255 ELSE 0)
    ELSE ToUint8Clamp(Gray(r, g, b))

\* A threshold with the two colours exchanged.
ChannelValueInverted(r, g, b, binarize) ==
    IF binarize
    THEN (IF Greater(Gray(r, g, b), Threshold) THEN 0 ELSE 255)
    ELSE ToUint8Clamp(Gray(r, g, b))

\* Lines 27-36: the value written to the three colour channels of a pixel.
ChannelValue(r, g, b, binarize) ==
    IF binarize
    THEN (IF Greater(Gray(r, g, b), Threshold) THEN 255 ELSE 0)
    ELSE ToUint8Clamp(Gray(r, g, b))

\* A loop that takes the data for three channels a pixel.
RECURSIVE PixelLoopNoAlpha(_, _, _)
PixelLoopNoAlpha(data, i, binarize) ==
    IF i + 2 > Len(data) THEN data
    ELSE LET v == ChannelValue(data[i], data[i + 1], data[i + 2], binarize)
         IN  PixelLoopNoAlpha([data EXCEPT ![i] = v, ![i + 1] = v, ![i + 2] = v], i + 3, binarize)

\* Lines 23-37, from the 1-based place i on:  for (i = 0; i < data.length; i += 4).
RECURSIVE PixelLoop(_, _, _)
PixelLoop(data, i, binarize) ==
    IF i > Len(data) THEN data
    ELSE LET v == ChannelValue(data[i], data[i + 1], data[i + 2], binarize)
         IN  PixelLoop([data EXCEPT ![i] = v, ![i + 1] = v, ![i + 2] = v], i + 4, binarize)

\* The canvas between putImageData and a later read (lines 16-18, 39-45).
\* A canvas that stores premultiplied 8-bit colours gives back a colour c
\* of a pixel of alpha a as Unpremultiply(Premultiply(c, a), a); one that
\* stores straight colours gives back c.  Alpha is stored as it is.
Premultiply(c, a) == (c * a + 127) \div 255

Unpremultiply(c, a) ==
    IF a = 0 THEN 0
    ELSE LET v == (c * 255 + (a \div 2)) \div a
         IN  IF v > 255 THEN 255 ELSE v

AlphaPlace(i) == 4 * ((i - 1) \div 4) + 4

ThroughCanvas(data, kind) ==
    [i \in 1..Len(data) |->
        IF i % 4 = 0 \/ kind = "straight" THEN data[i]
        ELSE Unpremultiply(Premultiply(data[i], data[AlphaPlace(i)]), data[AlphaPlace(i)])]

MsgNoContext == <<"Failed", "to", "get", "canvas", "context">>

MsgToBlobFailed == <<"Canvas", "toBlob", "failed">>

MsgImageLoadFailed == <<"Image", "load", "failed">>

\* preprocessImage not called, in the specifications of the routes.
PixelOff ==
    /\ pxFile = [decodable |-> FALSE]
    /\ pxBinarize = TRUE
    /\ pxCanvasKind = "straight"
    /\ pxData = [width |-> 0, height |-> 0, data |-> <<>>]
    /\ pxResult = [settled |-> FALSE]
    /\ pxPc = "off"
    /\ pxPass = 0
    /\ pxFirst = [settled |-> FALSE]

----------------------------------------------------------------------------
(* The gateway as a state machine.                                         *)

\* The reply parser at rest, in the specifications that do not exercise it alone.
\* No client component is mounted.
ClientOff == ui = [mounted |-> FALSE] /\ readers = {} /\ fetches = <<>>

ReplyOff ==
    /\ aiReply = [open |-> <<>>]
    /\ aiFields = [meterValue |-> Null, serialNumber |-> Null]
    /\ aiPc = "off"

Init ==
    /\ route \in Routes
    /\ cfg \in (IF route = "ocr" THEN OcrConfigs ELSE AiConfigs)
    /\ pc = "idle"
    /\ req = NoRequest
    /\ responses = <<>>
    /\ netCalls = 0
    /\ clientsBuilt = 0
    /\ trail = <<>>
    /\ upstream = <<>>
    /\ ocrData = [readResult |-> [blocks |-> <<>>]]
    /\ ocrLines = <<>>
    /\ ocrPc = "off"
    /\ ReplyOff
    /\ PixelOff
    /\ flights = <<>>
    /\ ClientOff

\* The framework invokes POST with a new request; the previous one, if any, is over.
Receive ==
    /\ pc \in {"idle", "done"}
    /\ \E r \in Requests : req' = r
    /\ pc' = "entry"
    /\ responses' = <<>>
    /\ netCalls' = 0
    /\ clientsBuilt' = 0
    /\ trail' = <<>>
    /\ upstream' = <<>>
    /\ UNCHANGED <<route, cfg, besidesGateway>>

\* return NextResponse.json(...): the handler is over.
Respond(response) ==
    /\ responses' = Append(responses, response)
    /\ pc' = "done"

\* ocr POST 102-134.
OcrPostEntry ==
    /\ route = "ocr" /\ pc = "entry"
    /\ LET d == OcrEntryDecision(req.useMock, cfg)
       IN  /\ trail' = Append(trail, d)
           /\ IF d = "mock" THEN pc' = "mockDelay" /\ UNCHANGED responses
              ELSE IF d = "config" THEN Respond(OcrConfigCheck(cfg).response)
              ELSE pc' = "formData" /\ UNCHANGED responses
    /\ UNCHANGED <<route, cfg, req, netCalls, clientsBuilt, upstream, besidesGateway>>

\* ocr POST 107-113: the 500 ms timer fires.
OcrMockRespond ==
    /\ route = "ocr" /\ pc = "mockDelay"
    /\ Respond(ResultsResponse(MockOcrResults))
    /\ UNCHANGED <<route, cfg, req, netCalls, clientsBuilt, trail, upstream, besidesGateway>>

\* ocr POST 134-153 (and 161-177 when formData() rejects).
OcrFormData ==
    /\ route = "ocr" /\ pc = "formData"
    /\ IF req.body.kind = "reject"
       THEN /\ Respond(OcrPostCatch(req.body.error))
            /\ trail' = Append(trail, "parseError")
       ELSE LET v == ValidateUpload(req.body)
            IN  IF v.ok
                THEN /\ pc' = "arrayBuffer"
                     /\ trail' = Append(trail, "validated")
                     /\ UNCHANGED responses
                ELSE /\ Respond(v.response)
                     /\ trail' = Append(trail, "invalid")
    /\ UNCHANGED <<route, cfg, req, netCalls, clientsBuilt, upstream, besidesGateway>>

\* ocr POST 153-158 and performServerSideOCR 26-46, up to the await of fetch.
OcrCallProvider ==
    /\ route = "ocr" /\ pc = "arrayBuffer"
    /\ IF OcrCredentialsMissing(cfg)
       THEN /\ Respond(OcrPostCatch(MsgServerConfigError))
            /\ trail' = Append(trail, "config")
            /\ UNCHANGED netCalls
       ELSE /\ netCalls' = netCalls + 1
            /\ pc' = "fetch"
            /\ trail' = Append(trail, "call")
            /\ UNCHANGED responses
    /\ UNCHANGED <<route, cfg, req, clientsBuilt, upstream, besidesGateway>>

\* An adapter that calls the provider again when fetch rejects.
OcrFetchSettlesRetry ==
    /\ route = "ocr" /\ pc = "fetch"
    /\ \E outcome \in OcrFetchOutcomes :
          LET r == OcrAdapterResult(outcome)
          IN  /\ upstream' = Append(upstream, outcome)
              /\ IF outcome.kind = "reject" /\ netCalls < 3
                 THEN netCalls' = netCalls + 1 /\ UNCHANGED <<pc, responses>>
                 ELSE /\ UNCHANGED netCalls
                      /\ IF r.ok THEN Respond(ResultsResponse(r.lines))
                         ELSE Respond(OcrPostCatch(r.error))
    /\ trail' = Append(trail, "settled")
    /\ UNCHANGED <<route, cfg, req, clientsBuilt, besidesGateway>>

\* A handler whose call of the adapter is outside the try: what the adapter
\* throws leaves POST without a response.
OcrFetchSettlesUncaught ==
    /\ route = "ocr" /\ pc = "fetch"
    /\ \E outcome \in OcrFetchOutcomes :
          LET r == OcrAdapterResult(outcome)
          IN  /\ upstream' = Append(upstream, outcome)
              /\ IF r.ok THEN Respond(ResultsResponse(r.lines))
                 ELSE pc' = "threw" /\ UNCHANGED responses
    /\ trail' = Append(trail, "settled")
    /\ UNCHANGED <<route, cfg, req, netCalls, clientsBuilt, besidesGateway>>

\* performServerSideOCR 42-95 and POST 159-177: fetch settles.
OcrFetchSettles ==
    /\ route = "ocr" /\ pc = "fetch"
    /\ \E outcome \in OcrFetchOutcomes :
          LET r == OcrAdapterResult(outcome)
          IN  /\ upstream' = Append(upstream, outcome)
              /\ IF r.ok THEN Respond(ResultsResponse(r.lines))
                 ELSE Respond(OcrPostCatch(r.error))
    /\ trail' = Append(trail, "settled")
    /\ UNCHANGED <<route, cfg, req, netCalls, clientsBuilt, besidesGateway>>

\* openai POST 157-175.
AiPostEntry ==
    /\ route = "openai" /\ pc = "entry"
    /\ IF req.useMock
       THEN pc' = "mockDelay" /\ trail' = Append(trail, "mock")
       ELSE pc' = "formData" /\ trail' = Append(trail, "formData")
    /\ UNCHANGED <<route, cfg, req, responses, netCalls, clientsBuilt, upstream, besidesGateway>>

\* openai POST 160-166: the 800 ms timer fires.
AiMockRespond ==
    /\ route = "openai" /\ pc = "mockDelay"
    /\ Respond(ResultsResponse(MockAiResults))
    /\ UNCHANGED <<route, cfg, req, netCalls, clientsBuilt, trail, upstream, besidesGateway>>

\* openai POST 175-188 (and 197-203 when formData() rejects).
AiFormData ==
    /\ route = "openai" /\ pc = "formData"
    /\ IF req.body.kind = "reject"
       THEN /\ Respond(AiPostCatch(req.body.error))
            /\ trail' = Append(trail, "parseError")
       ELSE LET v == ValidateUpload(req.body)
            IN  IF v.ok
                THEN /\ pc' = "arrayBuffer"
                     /\ trail' = Append(trail, "validated")
                     /\ UNCHANGED responses
                ELSE /\ Respond(v.response)
                     /\ trail' = Append(trail, "invalid")
    /\ UNCHANGED <<route, cfg, req, netCalls, clientsBuilt, upstream, besidesGateway>>

\* openai POST 188-192 and performOpenAIAnalysis 45-104, up to the await of the chat call.
AiCallProvider ==
    /\ route = "openai" /\ pc = "arrayBuffer"
    /\ LET sel == SelectProvider(cfg)
       IN  IF sel.ok
           THEN /\ clientsBuilt' = clientsBuilt + 1
                /\ netCalls' = netCalls + 1
                /\ pc' = "chat"
                /\ trail' = Append(trail, "call")
                /\ UNCHANGED responses
           ELSE /\ Respond(AiConfigCheck(cfg).response)
                /\ trail' = Append(trail, "config")
                /\ UNCHANGED <<clientsBuilt, netCalls>>
    /\ UNCHANGED <<route, cfg, req, upstream, besidesGateway>>

\* performOpenAIAnalysis 104-152 and POST 192-203: the chat call settles.
AiCallSettles ==
    /\ route = "openai" /\ pc = "chat"
    /\ \E outcome \in AiCallOutcomes :
          LET r == AiAdapterResult(SelectProvider(cfg).providerName, outcome)
          IN  /\ upstream' = Append(upstream, outcome)
              /\ IF r.ok THEN Respond(ResultsResponse(r.results))
                 ELSE Respond(AiPostCatch(r.error))
    /\ trail' = Append(trail, "settled")
    /\ UNCHANGED <<route, cfg, req, netCalls, clientsBuilt, besidesGateway>>

Next ==
    \/ Receive
    \/ OcrPostEntry
    \/ OcrMockRespond
    \/ OcrFormData
    \/ OcrCallProvider
    \/ OcrFetchSettles
    \/ AiPostEntry
    \/ AiMockRespond
    \/ AiFormData
    \/ AiCallProvider
    \/ AiCallSettles

Spec == Init /\ [][Next]_vars

\* The steps of a handler that has been invoked. Each is a synchronous stretch
\* of POST that the event loop runs once the await before it has settled.
Handle ==
    \/ OcrPostEntry
    \/ OcrMockRespond
    \/ OcrFormData
    \/ OcrCallProvider
    \/ OcrFetchSettles
    \/ AiPostEntry
    \/ AiMockRespond
    \/ AiFormData
    \/ AiCallProvider
    \/ AiCallSettles

\* The gateway when every await of an invoked handler settles: the timer of
\* the mock delay fires, formData() and arrayBuffer() return or throw, and
\* the provider call returns or throws. No request has to arrive.
LiveSpec == Spec /\ WF_vars(Handle)

----------------------------------------------------------------------------
(* The OCR adapter's parsing on its own: every well-formed provider         *)
(* response up to a size, built block by block, line by line, word by word, *)
(* then parsed as performServerSideOCR 54-87 parses it.                     *)

MaxOcrSize == 10

OcrWordTexts == {<<"1", "2">>, <<"k">>}

RECURSIVE CountWords(_)
CountWords(lines) ==
    IF lines = <<>> THEN 0 ELSE Len(Head(lines).words) + CountWords(Tail(lines))

RECURSIVE OcrSize(_)
OcrSize(blocks) ==
    IF blocks = <<>> THEN 0
    ELSE 1 + Len(Head(blocks).lines) + CountWords(Head(blocks).lines) + OcrSize(Tail(blocks))

OcrBlocks == ocrData.readResult.blocks

WithBlocks(blocks) == [readResult |-> [blocks |-> blocks]]

InitOcr ==
    /\ route = "ocr"
    /\ cfg = [AZURE_ENDPOINT |-> "valA", AZURE_KEY |-> "valA"]
    /\ pc = "idle"
    /\ req = NoRequest
    /\ responses = <<>>
    /\ netCalls = 0
    /\ clientsBuilt = 0
    /\ trail = <<>>
    /\ upstream = <<>>
    /\ ocrData = WithBlocks(<<>>)
    /\ ocrLines = <<>>
    /\ ocrPc = "building"
    /\ ReplyOff
    /\ PixelOff
    /\ flights = <<>>
    /\ ClientOff

OcrAddBlock ==
    /\ ocrPc = "building"
    /\ OcrSize(OcrBlocks) < MaxOcrSize
    /\ ocrData' = WithBlocks(Append(OcrBlocks, [lines |-> <<>>]))
    /\ UNCHANGED <<ocrLines, ocrPc, besidesOcr>>

OcrAddLine ==
    /\ ocrPc = "building"
    /\ OcrSize(OcrBlocks) < MaxOcrSize
    /\ OcrBlocks /= <<>>
    /\ LET n == Len(OcrBlocks)
       IN  ocrData' = WithBlocks([OcrBlocks EXCEPT ![n].lines = Append(@, [words |-> <<>>])])
    /\ UNCHANGED <<ocrLines, ocrPc, besidesOcr>>

OcrAddWord ==
    /\ ocrPc = "building"
    /\ OcrSize(OcrBlocks) < MaxOcrSize
    /\ OcrBlocks /= <<>>
    /\ OcrBlocks[Len(OcrBlocks)].lines /= <<>>
    /\ \E t \in OcrWordTexts :
          LET n == Len(OcrBlocks)
              m == Len(OcrBlocks[n].lines)
          IN  ocrData' = WithBlocks([OcrBlocks EXCEPT ![n].lines[m].words = Append(@, [text |-> t])])
    /\ UNCHANGED <<ocrLines, ocrPc, besidesOcr>>

\* const data = await response.json(); ... return lines;
OcrParse ==
    /\ ocrPc = "building"
    /\ LET parsed == ProcessOcrResponse(ocrData)
       IN  /\ parsed.ok
           /\ ocrLines' = parsed.lines
    /\ ocrPc' = "parsed"
    /\ UNCHANGED <<ocrData, besidesOcr>>

NextOcr ==
    \/ OcrAddBlock
    \/ OcrAddLine
    \/ OcrAddWord
    \/ OcrParse

SpecOcr == InitOcr /\ [][NextOcr]_vars

----------------------------------------------------------------------------
(* The reply parser alone (openai/route.ts 117-144): the content of the     *)
(* first choice is drawn from texts made of an opening and a closing fence, *)
(* white space around them, and a body that is a JSON object or other text. *)

ReplyValueKinds == {"missing", "null", "string", "empty", "number"}

SampleString(key) == IF key = MeterValueKey THEN <<"1", "2", "3", ".", "4">> ELSE <<"S", "N", "1">>

SampleNumber == <<"4", "2">>

ValueText(key, kind) ==
    CASE kind = "null" -> NullText
      [] kind = "string" -> JsonStringText(SampleString(key))
      [] kind = "empty" -> JsonStringText(<<>>)
      [] kind = "number" -> SampleNumber

MemberTexts(o, colon) ==
    LET One(key, kind) ==
            IF kind = "missing" THEN <<>>
            ELSE << JsonStringText(key) \o colon \o ValueText(key, kind) >>
    IN  One(MeterValueKey, o.meter) \o One(SerialNumberKey, o.serial)

\* The object on one line, or on indented lines as JSON.stringify(o, null, 1) writes it.
ObjectBodyText(o) ==
    IF o.pretty /\ MemberTexts(o, <<":", " ">>) /= <<>>
    THEN <<"{", "\n", " ">> \o JoinTexts(MemberTexts(o, <<":", " ">>), <<",", "\n", " ">>) \o <<"\n", "}">>
    ELSE ObjectText(MemberTexts(o, <<":">>))

ReplyObjects == [kind : {"object"}, meter : ReplyValueKinds, serial : ReplyValueKinds, pretty : BOOLEAN]

ReplyTexts ==
    { MeterOnlyText,
      MeterValueKey \o <<":", " ", "4", "2", ",", " ">> \o SerialNumberKey \o <<":", " ", "S", "N", "1">>,
      <<"'">> \o MeterValueKey \o <<"'", ":", " ", "'", "4", "2", "'", ",", " ", "'">>
          \o SerialNumberKey \o <<"'", ":", " ", "'", "S", "N", "1", "'">>,
      <<"M", "E", "T", "E", "R", "V", "A", "L", "U", "E", " ", ":", " ", "4", "2">>,
      MeterValueKey \o <<":", " ", ",", " ">> \o SerialNumberKey \o <<":", " ", Quote, "S", "N", "1", Quote>>,
      NoFieldText,
      CutObjectText,
      NullText,
      SampleNumber }

ReplyBodies == ReplyObjects \cup {[kind |-> "text", chars |-> c] : c \in ReplyTexts}

BodyText(body) == IF body.kind = "object" THEN ObjectBodyText(body) ELSE body.chars

Pads == {<<>>, <<"\n">>}

Opens == {<<>>, Fence, FenceJson, Fence \o <<"J", "S", "O", "N">>}

Closes == {<<>>, Fence}

Replies == [lead : Pads, open : Opens, gapOpen : Pads, body : ReplyBodies,
            gapClose : Pads, close : Closes, trail : Pads]

ReplyContent(r) ==
    r.lead \o r.open \o r.gapOpen \o BodyText(r.body) \o r.gapClose \o r.close \o r.trail

InitReply ==
    /\ route = "openai"
    /\ cfg = CHOOSE c \in AiConfigs : AiConfigCheck(c).ok
    /\ pc = "idle"
    /\ req = NoRequest
    /\ responses = <<>>
    /\ netCalls = 0
    /\ clientsBuilt = 0
    /\ trail = <<>>
    /\ upstream = <<>>
    /\ ocrData = [readResult |-> [blocks |-> <<>>]]
    /\ ocrLines = <<>>
    /\ ocrPc = "off"
    /\ aiReply \in {r \in Replies : ReplyContent(r) /= <<>>}
    /\ aiFields = [meterValue |-> Null, serialNumber |-> Null]
    /\ aiPc = "content"
    /\ PixelOff
    /\ flights = <<>>
    /\ ClientOff

\* performOpenAIAnalysis 117-144 on the content (line 112 has found it truthy).
ReplyExtract ==
    /\ aiPc = "content"
    /\ aiFields' = ExtractFields(ReplyContent(aiReply))
    /\ aiPc' = "extracted"
    /\ UNCHANGED <<aiReply, besidesReply>>

NextReply == ReplyExtract

SpecReply == InitReply /\ [][NextReply]_vars

----------------------------------------------------------------------------
(* preprocessImage alone (unnamed/part_000): one call, and a second call on *)
(* the blob of the first.                                                   *)

MaxPixels == 2

\* Pixels <<r, g, b, a>>: black, white, two of gray exactly 128 (the double
\* is 128 for the first and just below for the second), gray just above,
\* sums that end in one half, colours, and pixels that are not opaque.
PixelSamples ==
    { <<0, 0, 0, 255>>, <<255, 255, 255, 255>>, <<0, 208, 48, 255>>, <<128, 128, 128, 255>>,
      <<129, 128, 128, 255>>,
      <<0, 2, 12, 255>>, <<0, 0, 50, 255>>, <<0, 44, 14, 255>>, <<12, 200, 7, 255>>,
      <<255, 0, 0, 128>>, <<200, 220, 240, 0>>, <<90, 160, 100, 200>> }

RECURSIVE Flatten(_)
Flatten(pixels) == IF pixels = <<>> THEN <<>> ELSE Head(pixels) \o Flatten(Tail(pixels))

PixelRows(n) == [1..n -> PixelSamples]

\* The images of n pixels: every width and height with width * height = n.
ImagesOf(n) ==
    {[decodable |-> TRUE, width |-> w, height |-> n \div w, data |-> Flatten(p)] :
        w \in {w \in 1..n : n % w = 0}, p \in PixelRows(n)}

Images == UNION {ImagesOf(n) : n \in 1..MaxPixels}

\* What getImageData gives for the file (lines 16-18).
Decoded(image, kind) == [image EXCEPT !.data = ThroughCanvas(image.data, kind)]

InitPixel ==
    /\ route = "ocr"
    /\ cfg = [AZURE_ENDPOINT |-> "valA", AZURE_KEY |-> "valA"]
    /\ pc = "idle"
    /\ req = NoRequest
    /\ responses = <<>>
    /\ netCalls = 0
    /\ clientsBuilt = 0
    /\ trail = <<>>
    /\ upstream = <<>>
    /\ ocrData = [readResult |-> [blocks |-> <<>>]]
    /\ ocrLines = <<>>
    /\ ocrPc = "off"
    /\ ReplyOff
    /\ pxCanvasKind \in {"straight", "premultiplied"}
    /\ pxFile \in {Decoded(f, pxCanvasKind) : f \in Images} \cup {[decodable |-> FALSE]}
    /\ pxBinarize \in BOOLEAN
    /\ pxData = [width |-> 0, height |-> 0, data |-> <<>>]
    /\ pxResult = [settled |-> FALSE]
    /\ pxPc = "loading"
    /\ pxPass = 1
    /\ pxFirst = [settled |-> FALSE]
    /\ flights = <<>>
    /\ ClientOff

PxReject(message) ==
    /\ pxResult' = [settled |-> TRUE, ok |-> FALSE, error |-> message]
    /\ pxPc' = "rejected"

\* Lines 49-51: img.onerror.
PxOnError ==
    /\ pxPc = "loading" /\ ~pxFile.decodable
    /\ PxReject(MsgImageLoadFailed)
    /\ UNCHANGED <<pxFile, pxBinarize, pxCanvasKind, pxData, pxPass, pxFirst, besidesPixel>>

\* Lines 6-46: img.onload, up to the call of canvas.toBlob.
PxOnLoad ==
    /\ pxPc = "loading" /\ pxFile.decodable
    /\ \E hasContext \in BOOLEAN :
          IF ~hasContext
          THEN PxReject(MsgNoContext) /\ UNCHANGED pxData
          ELSE /\ pxData' = [width |-> pxFile.width, height |-> pxFile.height,
                              data |-> PixelLoop(pxFile.data, 1, pxBinarize)]
               /\ pxPc' = "toBlob"
               /\ UNCHANGED pxResult
    /\ UNCHANGED <<pxFile, pxBinarize, pxCanvasKind, pxPass, pxFirst, besidesPixel>>

\* Lines 40-46: the callback of canvas.toBlob, with the PNG or with null.
PxToBlob ==
    /\ pxPc = "toBlob"
    /\ \E hasBlob \in BOOLEAN :
          IF hasBlob
          THEN /\ pxResult' = [settled |-> TRUE, ok |-> TRUE,
                                blob |-> [type |-> "image/png", width |-> pxData.width, height |-> pxData.height,
                                          data |-> ThroughCanvas(pxData.data, pxCanvasKind)]]
               /\ pxPc' = "resolved"
          ELSE PxReject(MsgToBlobFailed)
    /\ UNCHANGED <<pxFile, pxBinarize, pxCanvasKind, pxData, pxPass, pxFirst, besidesPixel>>

\* Lines 1-5, 52: preprocessImage called again, on the blob of the first call.
PxCallAgain ==
    /\ pxPc = "resolved" /\ pxPass = 1
    /\ \E binarize \in BOOLEAN : pxBinarize' = binarize
    /\ pxFile' = [decodable |-> TRUE, width |-> pxResult.blob.width, height |-> pxResult.blob.height,
                  data |-> ThroughCanvas(pxResult.blob.data, pxCanvasKind)]
    /\ pxFirst' = [settled |-> TRUE, binarize |-> pxBinarize, blob |-> pxResult.blob]
    /\ pxResult' = [settled |-> FALSE]
    /\ pxPc' = "loading"
    /\ pxPass' = 2
    /\ UNCHANGED <<pxCanvasKind, pxData, besidesPixel>>

NextPixel ==
    \/ PxOnError
    \/ PxOnLoad
    \/ PxToBlob
    \/ PxCallAgain

SpecPixel == InitPixel /\ [][NextPixel]_vars

----------------------------------------------------------------------------
(* Several requests in flight at one route module.  Each invocation of     *)
(* POST has its own locals (a flight); the module-level constants (cfg)    *)
(* are what the invocations share.  A step of a flight is the code between *)
(* two awaits, as in the actions of one request above.                     *)

MaxInFlight == 2

ConcOcrConfigs == {[AZURE_ENDPOINT |-> "valA", AZURE_KEY |-> k] : k \in {"valA", UNSET}}

ConcAiConfigs ==
    {[OPENAI_PROVIDER_ENV |-> p, AZURE_OPENAI_ENDPOINT |-> "valA", AZURE_OPENAI_API_KEY |-> "valA",
      AZURE_OPENAI_DEPLOYMENT_NAME |-> "valB", AZURE_OPENAI_API_VERSION |-> "valA",
      OPENAI_API_KEY |-> UNSET] : p \in {"azure", "openai"}}

ConcRequests ==
    {[useMock |-> m, body |-> [kind |-> "form", hasImage |-> TRUE, file |-> [type |-> t, size |-> 1024]]] :
        m \in BOOLEAN, t \in {<<"image", "/", "png">>, <<"text", "/", "plain">>}}

NoOutcome == [kind |-> "none"]

ConcOutcomes(r) ==
    IF r = "ocr"
    THEN {[kind |-> "reject", message |-> <<"fetch", "failed">>],
          [kind |-> "http", ok |-> TRUE, status |-> 200, json |-> TRUE,
           data |-> [readResult |-> [blocks |-> << [lines |-> << [words |-> OcrSampleWords] >>] >>]]]}
    ELSE {[kind |-> "reject", message |-> <<"429", "Too", "Many", "Requests">>, detail |-> <<>>],
          [kind |-> "resolve", hasChoice |-> TRUE, hasContent |-> TRUE, content |-> ExampleObjectText]}

IdleFlight == [pc |-> "idle", req |-> NoRequest, response |-> <<>>, outcome |-> <<>>, calls |-> 0]

Answer(f, response) == [f EXCEPT !.pc = "done", !.response = <<response>>]

Goto(f, p) == [f EXCEPT !.pc = p]

\* A mock flag kept in one place for the module: set by any request in flight.
UseMockShared(fs, i) == \E j \in DOMAIN fs : fs[j].pc /= "idle" /\ fs[j].req.useMock

\* ocr POST 103, openai POST 157: const useMock, a local of the invocation.
UseMockOf(fs, i) == fs[i].req.useMock

\* ocr POST 102-134 and openai POST 157-175.
EntryStep(r, c, f, useMock) ==
    IF r = "ocr"
    THEN LET d == OcrEntryDecision(useMock, c)
         IN  IF d = "mock" THEN Goto(f, "mockDelay")
             ELSE IF d = "config" THEN Answer(f, OcrConfigCheck(c).response)
             ELSE Goto(f, "formData")
    ELSE IF useMock THEN Goto(f, "mockDelay") ELSE Goto(f, "formData")

\* ocr POST 107-113 and openai POST 160-166: the timer fires.
MockStep(r, f) ==
    Answer(f, ResultsResponse(IF r = "ocr" THEN MockOcrResults ELSE MockAiResults))

\* ocr POST 134-153 and openai POST 175-188.
FormDataStep(r, f) ==
    IF f.req.body.kind = "reject"
    THEN Answer(f, IF r = "ocr" THEN OcrPostCatch(f.req.body.error) ELSE AiPostCatch(f.req.body.error))
    ELSE LET v == ValidateUpload(f.req.body)
         IN  IF v.ok THEN Goto(f, "arrayBuffer") ELSE Answer(f, v.response)

\* ocr POST 153-158 with performServerSideOCR 26-46, openai POST 188-192
\* with performOpenAIAnalysis 45-104: up to the await of the provider call.
CallStep(r, c, f) ==
    IF r = "ocr"
    THEN IF OcrCredentialsMissing(c)
         THEN Answer(f, OcrPostCatch(MsgServerConfigError))
         ELSE [Goto(f, "fetch") EXCEPT !.calls = @ + 1]
    ELSE IF SelectProvider(c).ok
         THEN [Goto(f, "chat") EXCEPT !.calls = @ + 1]
         ELSE Answer(f, AiConfigCheck(c).response)

\* performServerSideOCR 42-95 with POST 159-177, performOpenAIAnalysis
\* 104-152 with POST 192-203: the provider call settles.
SettleStep(r, c, f, outcome) ==
    LET g == [f EXCEPT !.outcome = <<outcome>>]
    IN  IF r = "ocr"
        THEN LET res == OcrAdapterResult(outcome)
             IN  IF res.ok THEN Answer(g, ResultsResponse(res.lines))
                 ELSE Answer(g, OcrPostCatch(res.error))
        ELSE LET res == AiAdapterResult(SelectProvider(c).providerName, outcome)
             IN  IF res.ok THEN Answer(g, ResultsResponse(res.results))
                 ELSE Answer(g, AiPostCatch(res.error))

InitConc ==
    /\ route \in Routes
    /\ cfg \in (IF route = "ocr" THEN ConcOcrConfigs ELSE ConcAiConfigs)
    /\ pc = "idle"
    /\ req = NoRequest
    /\ responses = <<>>
    /\ netCalls = 0
    /\ clientsBuilt = 0
    /\ trail = <<>>
    /\ upstream = <<>>
    /\ ocrData = [readResult |-> [blocks |-> <<>>]]
    /\ ocrLines = <<>>
    /\ ocrPc = "off"
    /\ ReplyOff
    /\ PixelOff
    /\ flights = [i \in 1..MaxInFlight |-> IdleFlight]
    /\ ClientOff

\* The framework invokes POST for a new request, in a place that is free.
ConcReceive(i) ==
    /\ flights[i].pc \in {"idle", "done"}
    /\ \E r \in ConcRequests : flights' = [flights EXCEPT ![i] = [IdleFlight EXCEPT !.pc = "entry", !.req = r]]
    /\ UNCHANGED <<route, cfg, besidesFlights>>

ConcEntry(i) ==
    /\ flights[i].pc = "entry"
    /\ flights' = [flights EXCEPT ![i] = EntryStep(route, cfg, flights[i], UseMockOf(flights, i))]
    /\ UNCHANGED <<route, cfg, besidesFlights>>

ConcMockTimer(i) ==
    /\ flights[i].pc = "mockDelay"
    /\ flights' = [flights EXCEPT ![i] = MockStep(route, flights[i])]
    /\ UNCHANGED <<route, cfg, besidesFlights>>

ConcFormData(i) ==
    /\ flights[i].pc = "formData"
    /\ flights' = [flights EXCEPT ![i] = FormDataStep(route, flights[i])]
    /\ UNCHANGED <<route, cfg, besidesFlights>>

ConcCallProvider(i) ==
    /\ flights[i].pc = "arrayBuffer"
    /\ flights' = [flights EXCEPT ![i] = CallStep(route, cfg, flights[i])]
    /\ UNCHANGED <<route, cfg, besidesFlights>>

ConcSettle(i) ==
    /\ flights[i].pc \in {"fetch", "chat"}
    /\ \E outcome \in ConcOutcomes(route) :
          flights' = [flights EXCEPT ![i] = SettleStep(route, cfg, flights[i], outcome)]
    /\ UNCHANGED <<route, cfg, besidesFlights>>

NextConc ==
    \E i \in 1..MaxInFlight :
        \/ ConcReceive(i)
        \/ ConcEntry(i)
        \/ ConcMockTimer(i)
        \/ ConcFormData(i)
        \/ ConcCallProvider(i)
        \/ ConcSettle(i)

SpecConc == InitConc /\ [][NextConc]_vars




----------------------------------------------------------------------------
(* Vocabulary of the properties, stated on the request and the response     *)
(* and not through the operators that model the code.                       *)

Done == pc = "done"

TheResponse == responses[1]

Is2xx(status) == status >= 200 /\ status <= 299

HasFile == req.body.kind = "form" /\ req.body.hasImage

PayloadValid ==
    /\ HasFile
    /\ Len(req.body.file.type) >= 2
    /\ req.body.file.type[1] = "image"
    /\ req.body.file.type[2] = "/"
    /\ req.body.file.size <= 4 * 1024 * 1024

PayloadInvalid == HasFile /\ ~PayloadValid

Absent(v) == v \in {UNSET, EMPTY}

OcrMockResponse ==
    [status |-> 200,
     body |-> [results |-> <<"Mock Server-Side (App Router / formData) OCR Result 1",
                             "Mock Server-Side (App Router / formData) Result Line 2">>]]

AiMockResponse ==
    [status |-> 200,
     body |-> [results |-> [meterValue |-> [isNull |-> FALSE, str |-> "MOCK_12345.67"],
                            serialNumber |-> [isNull |-> FALSE, str |-> "MOCK_SN_987XYZ"]]]]

MockResponseOf(r) == IF r = "ocr" THEN OcrMockResponse ELSE AiMockResponse

ValidationMessages == {MsgInvalidType, MsgFileSize}

IsErrorResponse(r) == DOMAIN r.body = {"error"}

OcrCredentialAbsent == route = "ocr" /\ (Absent(cfg.AZURE_ENDPOINT) \/ Absent(cfg.AZURE_KEY))

----------------------------------------------------------------------------
RequiredConfigMissing ==
    IF route = "ocr" THEN Absent(cfg.AZURE_ENDPOINT) \/ Absent(cfg.AZURE_KEY)
    ELSE LET family == IF Absent(cfg.OPENAI_PROVIDER_ENV) THEN "azure" ELSE cfg.OPENAI_PROVIDER_ENV
         IN  \/ /\ family = "azure"
                /\ \/ Absent(cfg.AZURE_OPENAI_ENDPOINT)
                   \/ Absent(cfg.AZURE_OPENAI_API_KEY)
                   \/ Absent(cfg.AZURE_OPENAI_DEPLOYMENT_NAME)
                   \/ Absent(cfg.AZURE_OPENAI_API_VERSION)
             \/ /\ family = "openai"
                /\ Absent(cfg.OPENAI_API_KEY)

ProviderUnrecognized ==
    /\ route = "openai"
    /\ ~Absent(cfg.OPENAI_PROVIDER_ENV)
    /\ cfg.OPENAI_PROVIDER_ENV \notin {"azure", "openai"}

ConfigurationMessages ==
    {MsgOcrNotConfigured, MsgServerConfigError, MsgAzureConfigMissing, MsgOpenAIKeyMissing, MsgInvalidProvider}

IsConfigurationError(r) ==
    /\ r.status = 500
    /\ IsErrorResponse(r)
    /\ r.body.error \in ConfigurationMessages

\* The response of the vision-model route to a request that never reaches
\* provider selection: its body does not parse, or its upload is refused.
AiEarlyFailure(r) ==
    /\ IsErrorResponse(r)
    /\ IF req.body.kind = "reject" THEN r.status = 500 /\ r.body.error \in {req.body.error, MsgUnexpected}
       ELSE r.status = 400 /\ r.body.error \in ({MsgNoImage} \cup ValidationMessages)

\* C4 (as claimed): every request without the mock flag, when a required
\* configuration field is missing, ends with a 500 configuration error and
\* makes no provider call.
C4_MissingConfigAlways500 ==
    (~req.useMock /\ req /= NoRequest /\ RequiredConfigMissing) =>
        /\ netCalls = 0
        /\ Done => IsConfigurationError(TheResponse)

\* C4 (amended): such a request never constructs a client or calls the
\* provider; it ends with the 500 configuration error on the OCR route always,
\* and on the vision-model route when its body parses and its upload is valid;
\* otherwise the vision-model route answers with the earlier parse or
\* validation failure.
C4_MissingConfigOutcome ==
    (~req.useMock /\ req /= NoRequest /\ RequiredConfigMissing) =>
        /\ netCalls = 0
        /\ clientsBuilt = 0
        /\ upstream = <<>>
        /\ Done =>
              IF route = "ocr" \/ PayloadValid
              THEN IsConfigurationError(TheResponse)
              ELSE AiEarlyFailure(TheResponse)

C4_Witness ==
    /\ Done
    /\ ~req.useMock
    /\ route = "openai"
    /\ cfg.OPENAI_PROVIDER_ENV = "azure"
    /\ Absent(cfg.AZURE_OPENAI_API_VERSION)
    /\ ~Absent(cfg.AZURE_OPENAI_ENDPOINT)
    /\ ~Absent(cfg.AZURE_OPENAI_API_KEY)
    /\ ~Absent(cfg.AZURE_OPENAI_DEPLOYMENT_NAME)
    /\ PayloadValid
    /\ TheResponse = [status |-> 500, body |-> [error |-> MsgAzureConfigMissing]]

\* C5 (as claimed): on the vision-model route every request without the mock
\* flag, when the provider-family identifier is unrecognized, ends with the
\* fatal configuration error, with no client and no provider call.
C5_UnknownProviderAlwaysFatal ==
    (~req.useMock /\ req /= NoRequest /\ ProviderUnrecognized) =>
        /\ netCalls = 0
        /\ clientsBuilt = 0
        /\ Done => TheResponse = [status |-> 500, body |-> [error |-> MsgInvalidProvider]]

\* C5 (amended): such a request never constructs a client or calls the
\* provider; it ends with the fatal configuration error when its body parses
\* and its upload is valid, and otherwise with the earlier parse or validation
\* failure.
C5_UnknownProviderOutcome ==
    (~req.useMock /\ req /= NoRequest /\ ProviderUnrecognized) =>
        /\ netCalls = 0
        /\ clientsBuilt = 0
        /\ upstream = <<>>
        /\ Done =>
              IF PayloadValid
              THEN TheResponse = [status |-> 500, body |-> [error |-> MsgInvalidProvider]]
              ELSE AiEarlyFailure(TheResponse)

C5_Witness ==
    /\ Done
    /\ ~req.useMock
    /\ ProviderUnrecognized
    /\ ~Absent(cfg.AZURE_OPENAI_ENDPOINT)
    /\ ~Absent(cfg.AZURE_OPENAI_API_KEY)
    /\ ~Absent(cfg.AZURE_OPENAI_DEPLOYMENT_NAME)
    /\ ~Absent(cfg.AZURE_OPENAI_API_VERSION)
    /\ ~Absent(cfg.OPENAI_API_KEY)
    /\ PayloadValid
    /\ TheResponse = [status |-> 500, body |-> [error |-> MsgInvalidProvider]]

\* What the provider did with the call of this request.
ProviderCallFailed ==
    /\ upstream /= <<>>
    /\ \/ upstream[1].kind = "reject"
       \/ upstream[1].kind = "http" /\ ~upstream[1].ok

C7_ResponseShape ==
    \A i \in 1..Len(responses) :
        \/ DOMAIN responses[i].body = {"results"} /\ Is2xx(responses[i].status)
        \/ /\ DOMAIN responses[i].body = {"error"}
           /\ ~Is2xx(responses[i].status)
           /\ responses[i].body.error \in Seq(STRING)

C7_Witness ==
    /\ Done
    /\ route = "openai"
    /\ DOMAIN TheResponse.body = {"error"}
    /\ TheResponse.status = 400
    /\ PayloadInvalid

GenericProviderMessages ==
    { <<"Error", "communicating", "with", "OCR", "service", ".">>,
      <<"Failed", "to", "process", "image", "with", "Azure", "OCR", ".">>,
      <<"Failed", "to", "process", "image", "with", "Azure", "OpenAI", ".">>,
      <<"Failed", "to", "process", "image", "with", "OpenAI", ".">> }

UpstreamTokens ==
    IF upstream = <<>> THEN {}
    ELSE IF upstream[1].kind = "reject" /\ "detail" \in DOMAIN upstream[1]
         THEN {upstream[1].detail[i] : i \in 1..Len(upstream[1].detail)}
    ELSE IF upstream[1].kind = "http" /\ ~upstream[1].ok
         THEN {upstream[1].text[i] : i \in 1..Len(upstream[1].text)} \cup {StatusText(upstream[1].status)}
    ELSE {}

\* C8: after a failed provider call the error message sent to the caller is
\* one of a fixed set of generic messages and holds nothing of the upstream
\* error, on both routes.
C8_GenericProviderError ==
    (Done /\ ProviderCallFailed) =>
        /\ TheResponse.body.error \in GenericProviderMessages
        /\ \A t \in UpstreamTokens : ~HasToken(TheResponse.body.error, t)

\* The configurations that have the same fields present and absent as c and
\* the same provider family, with any values in the fields that are present.
Alt(v) == IF Absent(v) THEN {v} ELSE SecretValues

ConfigVariants(r, c) ==
    IF r = "ocr"
    THEN {[AZURE_ENDPOINT |-> e, AZURE_KEY |-> k] : e \in Alt(c.AZURE_ENDPOINT), k \in Alt(c.AZURE_KEY)}
    ELSE {[OPENAI_PROVIDER_ENV |-> c.OPENAI_PROVIDER_ENV,
           AZURE_OPENAI_ENDPOINT |-> e,
           AZURE_OPENAI_API_KEY |-> k,
           AZURE_OPENAI_DEPLOYMENT_NAME |-> d,
           AZURE_OPENAI_API_VERSION |-> v,
           OPENAI_API_KEY |-> o] :
              e \in Alt(c.AZURE_OPENAI_ENDPOINT), k \in Alt(c.AZURE_OPENAI_API_KEY),
              d \in Alt(c.AZURE_OPENAI_DEPLOYMENT_NAME), v \in Alt(c.AZURE_OPENAI_API_VERSION),
              o \in Alt(c.OPENAI_API_KEY)}

ConfigCheckOf(r, c) == IF r = "ocr" THEN OcrConfigCheck(c) ELSE AiConfigCheck(c)

ConfigErrorState == Done /\ trail /= <<>> /\ trail[Len(trail)] = "config"

\* C9: the response to a configuration error holds no configured value, and
\* is the same response under every configuration that differs only in the
\* values of the fields that are present.
C9_ConfigErrorHidesValues ==
    ConfigErrorState =>
        /\ IsErrorResponse(TheResponse)
        /\ \A v \in SecretValues : ~HasToken(TheResponse.body.error, v)
        /\ \A c2 \in ConfigVariants(route, cfg) :
              /\ ~ConfigCheckOf(route, c2).ok
              /\ ConfigCheckOf(route, c2).response = TheResponse

C9_Witness ==
    /\ ConfigErrorState
    /\ route = "openai"
    /\ cfg.OPENAI_PROVIDER_ENV = "azure"
    /\ cfg.AZURE_OPENAI_ENDPOINT = "valA"
    /\ cfg.AZURE_OPENAI_DEPLOYMENT_NAME = "valB"
    /\ Absent(cfg.AZURE_OPENAI_API_KEY)
    /\ TheResponse.status = 500

----------------------------------------------------------------------------
(* The OCR adapter's output, stated on the response and the output.         *)

RECURSIVE JoinWords(_)
JoinWords(words) ==
    IF words = <<>> THEN <<>>
    ELSE IF Len(words) = 1 THEN words[1].text
    ELSE JoinWords(SubSeq(words, 1, Len(words) - 1)) \o <<" ">> \o words[Len(words)].text

RECURSIVE LinesBefore(_, _)
LinesBefore(blocks, b) == IF b = 1 THEN 0 ELSE LinesBefore(blocks, b - 1) + Len(blocks[b - 1].lines)

TotalLines(blocks) == LinesBefore(blocks, Len(blocks) + 1)

\* C10: the adapter returns one string per line of the response, the line j
\* of block b at the place given by block order then line order, and each
\* string is the line's words joined by single spaces, with no trailing space.
C10_OneStringPerLineInOrder ==
    ocrPc = "parsed" =>
        /\ Len(ocrLines) = TotalLines(OcrBlocks)
        /\ \A b \in 1..Len(OcrBlocks) : \A j \in 1..Len(OcrBlocks[b].lines) :
              LET out == ocrLines[LinesBefore(OcrBlocks, b) + j]
              IN  /\ out = JoinWords(OcrBlocks[b].lines[j].words)
                  /\ out = <<>> \/ out[Len(out)] /= " "

C10_Witness ==
    /\ ocrPc = "parsed"
    /\ Len(OcrBlocks) = 2
    /\ \A b \in 1..2 : Len(OcrBlocks[b].lines) = 1 /\ Len(OcrBlocks[b].lines[1].words) = 3
    /\ OcrBlocks[1].lines[1].words /= OcrBlocks[2].lines[1].words
    /\ ocrLines = << <<"1", "2", " ", "k", " ", "k">>, <<"k", " ", "1", "2", " ", "1", "2">> >>

----------------------------------------------------------------------------
(* A provider response that holds no text.                                  *)

\* The response of the provider that the adapter read, once fetch settled.
OcrSettled == route = "ocr" /\ Done /\ Len(upstream) = 1

OcrSuccessBody ==
    /\ OcrSettled
    /\ upstream[1].kind = "http" /\ upstream[1].ok /\ upstream[1].json

NoBlocks(data) ==
    \/ "readResult" \notin DOMAIN data
    \/ "blocks" \notin DOMAIN data.readResult
    \/ data.readResult.blocks = <<>>

NoLines(data) ==
    /\ ~NoBlocks(data)
    /\ \A i \in 1..Len(data.readResult.blocks) :
          /\ "lines" \in DOMAIN data.readResult.blocks[i]
          /\ data.readResult.blocks[i].lines = <<>>

\* C11: a successful provider response with no readResult, with zero blocks
\* or with blocks that hold zero lines ends the request Done, with status 200
\* and an empty sequence of lines, never with an error.
C11_NoTextIsEmptySuccess ==
    (OcrSuccessBody /\ (NoBlocks(upstream[1].data) \/ NoLines(upstream[1].data))) =>
        /\ Len(responses) = 1
        /\ TheResponse = [status |-> 200, body |-> [results |-> <<>>]]

C11_Witness ==
    /\ OcrSuccessBody
    /\ "readResult" \notin DOMAIN upstream[1].data
    /\ TheResponse.status = 200
    /\ TheResponse.body.results = <<>>

C11_WitnessNoLines ==
    /\ OcrSuccessBody
    /\ NoLines(upstream[1].data)
    /\ TheResponse.body = [results |-> <<>>]

----------------------------------------------------------------------------
(* The fields read from the model's reply.                                  *)

Extracted == aiPc = "extracted"

\* The reply is a JSON object between an opening fence, with or without
\* the json tag, and a closing fence.
FencedObject == aiReply.body.kind = "object" /\ aiReply.open \in {Fence, FenceJson} /\ aiReply.close = Fence

\* The reply is a JSON object and nothing else but white space.
BareObject == aiReply.body.kind = "object" /\ aiReply.open = <<>> /\ aiReply.close = <<>>

\* What the object says of one key, read off the way the reply was made.
FieldOfObject(kind, key) ==
    CASE kind \in {"missing", "null"} -> Null
      [] kind = "string" -> Str(SampleString(key))
      [] kind = "empty" -> Str(<<>>)
      [] kind = "number" -> Num(SampleNumber)

FieldsOfObject(o) ==
    [meterValue |-> FieldOfObject(o.meter, MeterValueKey),
     serialNumber |-> FieldOfObject(o.serial, SerialNumberKey)]

\* C12: a JSON object wrapped in a leading and a trailing fence, with or
\* without the json tag, gives the fields that the object alone gives, and
\* an object without a fence gives the fields it holds.
C12_FenceIsTransparent ==
    (Extracted /\ (FencedObject \/ BareObject)) => aiFields = FieldsOfObject(aiReply.body)

C12_Witness ==
    /\ Extracted
    /\ FencedObject
    /\ aiReply.open = FenceJson
    /\ aiReply.body.meter = "string" /\ aiReply.body.serial = "string"
    /\ aiFields = [meterValue |-> Str(<<"1", "2", "3", ".", "4">>), serialNumber |-> Str(<<"S", "N", "1">>)]

\* Whether a field is a populated string: a string of at least one character.
Populated(v) == ~v.isNull /\ "str" \in DOMAIN v /\ v.str /= <<>>

\* C13: in every result of the reply parser each of the two fields is a
\* populated string or null, never an empty string and never another value.
C13_FieldsPopulatedOrAbsent ==
    Extracted =>
        /\ aiFields.meterValue = Null \/ Populated(aiFields.meterValue)
        /\ aiFields.serialNumber = Null \/ Populated(aiFields.serialNumber)

----------------------------------------------------------------------------
(* A reply that is no JSON, in the gateway.                                 *)

AiReplied ==
    /\ route = "openai" /\ Done /\ Len(upstream) = 1
    /\ upstream[1].kind = "resolve" /\ upstream[1].hasChoice /\ upstream[1].hasContent

Sentinel == Str(<<"P", "a", "r", "s", "e", " ", "E", "r", "r", "o", "r">>)

\* The replies that are no JSON, each with the fields that the pattern
\* search is to find in it.
UnparseableReplies ==
    { [content |-> MeterOnlyText, meterValue |-> Str(<<"4", "2">>), serialNumber |-> Sentinel],
      [content |-> NoFieldText, meterValue |-> Sentinel, serialNumber |-> Sentinel],
      [content |-> CutObjectText, meterValue |-> Str(<<"1", "2", "3", ".", "4">>),
       serialNumber |-> Str(<<"S", "N", "1">>)] }

\* C14: a reply that is no JSON still ends the request with status 200 and
\* a result; a field that the pattern search finds holds the value found,
\* a field it does not find holds the sentinel, which is not null.
C14_FallbackResult ==
    \A u \in UnparseableReplies :
        (AiReplied /\ upstream[1].content = u.content) =>
            /\ TheResponse.status = 200
            /\ TheResponse.body = [results |-> [meterValue |-> u.meterValue, serialNumber |-> u.serialNumber]]
            /\ Sentinel /= Null

C14_Witness ==
    /\ AiReplied
    /\ upstream[1].content = MeterOnlyText
    /\ TheResponse.status = 200
    /\ TheResponse.body.results = [meterValue |-> Str(<<"4", "2">>), serialNumber |-> Sentinel]

----------------------------------------------------------------------------
(* A chat call that gives no reply.                                         *)

AiSettled == route = "openai" /\ Done /\ Len(upstream) = 1

ChatThrew == upstream[1].kind = "reject"

NoChoice == upstream[1].kind = "resolve" /\ ~upstream[1].hasChoice

NoContent == upstream[1].kind = "resolve" /\ upstream[1].hasChoice /\ ~upstream[1].hasContent

\* The messages of a provider failure in the vision-model adapter: the
\* fixed one, or the one that carries the provider's detail.
IsProviderMessage(m) ==
    \E name \in {<<"Azure", "OpenAI">>, <<"OpenAI">>} :
        \/ m = <<"Failed", "to", "process", "image", "with">> \o name \o <<".">>
        \/ StartsWith(m, name \o <<"API", "Error", ":">>)

\* C15: when the chat request throws, returns no choice, or returns a first
\* choice without content, the request ends with a non-2xx status and a
\* provider error, and with no results.
C15_NoReplyFails ==
    (AiSettled /\ (ChatThrew \/ NoChoice \/ NoContent)) =>
        /\ Len(responses) = 1
        /\ ~Is2xx(TheResponse.status)
        /\ DOMAIN TheResponse.body = {"error"}
        /\ IsProviderMessage(TheResponse.body.error)

C15_Witness ==
    /\ AiSettled
    /\ NoContent
    /\ TheResponse.status = 500
    /\ "results" \notin DOMAIN TheResponse.body

----------------------------------------------------------------------------
(* The pixel loop of preprocessImage, stated on the data read and written.  *)

\* The loop of the current call has run.
LoopDone == pxPc \in {"toBlob", "resolved"}

PixelCount == Len(pxFile.data) \div 4

\* Channel c (1 red, 2 green, 3 blue, 4 alpha) of pixel p, read and written.
In(p, c) == pxFile.data[4 * (p - 1) + c]

Out(p, c) == pxData.data[4 * (p - 1) + c]

\* 100 * (0.30 r + 0.59 g + 0.11 b), a whole number.
Luma100(p) == 30 * In(p, 1) + 59 * In(p, 2) + 11 * In(p, 3)

Binarized(p) == \A c \in 1..3 : Out(p, c) = (IF Luma100(p) > 12800 THEN 255 ELSE 0)

\* C16 as stated: without binarization the three channels hold
\* round(0.30 r + 0.59 g + 0.11 b), a half rounded upward; with binarization
\* they hold 255 when 0.30 r + 0.59 g + 0.11 b > 128 and 0 otherwise.
C16_RoundedLuma ==
    LoopDone => \A p \in 1..PixelCount :
        IF pxBinarize THEN Binarized(p)
        ELSE \A c \in 1..3 : Out(p, c) = (Luma100(p) + 50) \div 100

\* C16 amended: without binarization the three channels hold one same whole
\* number that is nearest to 0.30 r + 0.59 g + 0.11 b, which on an exact half
\* is either neighbour; with binarization they hold 255 when the sum is
\* above 128 and 0 otherwise, so 0 for a gray of exactly 128.
C16_NearestLuma ==
    LoopDone => \A p \in 1..PixelCount :
        IF pxBinarize THEN Binarized(p)
        ELSE /\ Out(p, 1) = Out(p, 2) /\ Out(p, 2) = Out(p, 3)
             /\ 100 * Out(p, 1) - Luma100(p) \in -50..50

C16_Witness ==
    /\ LoopDone /\ ~pxBinarize
    /\ PixelCount = 2
    /\ <<In(1, 1), In(1, 2), In(1, 3)>> = <<0, 2, 12>>
    /\ <<Out(1, 1), Out(1, 2), Out(1, 3)>> = <<2, 2, 2>>
    /\ <<In(2, 1), In(2, 2), In(2, 3)>> = <<0, 0, 50>>
    /\ <<Out(2, 1), Out(2, 2), Out(2, 3)>> = <<6, 6, 6>>

C16_WitnessThreshold ==
    /\ LoopDone /\ pxBinarize
    /\ PixelCount = 2
    /\ <<In(1, 1), In(1, 2), In(1, 3)>> = <<128, 128, 128>>
    /\ <<Out(1, 1), Out(1, 2), Out(1, 3)>> = <<0, 0, 0>>
    /\ <<In(2, 1), In(2, 2), In(2, 3)>> = <<129, 128, 128>>
    /\ <<Out(2, 1), Out(2, 2), Out(2, 3)>> = <<255, 255, 255>>

\* C17: a second call with binarization on the blob of a first call with
\* binarization resolves with the same blob, and in every call with
\* binarization a black pixel stays black and a white pixel stays white.
C17_BinarizeTwice ==
    /\ (pxPc = "resolved" /\ pxPass = 2 /\ pxBinarize /\ pxFirst.binarize) =>
            pxResult.blob = pxFirst.blob
    /\ (LoopDone /\ pxBinarize) => \A p \in 1..PixelCount :
            \A v \in {0, 255} :
                (\A c \in 1..3 : In(p, c) = v) => (\A c \in 1..3 : Out(p, c) = v)

C17_Witness ==
    /\ pxPc = "resolved" /\ pxPass = 2 /\ pxBinarize /\ pxFirst.binarize
    /\ PixelCount = 2
    /\ pxFirst.blob.data = <<255, 255, 255, 255, 0, 0, 0, 128>>
    /\ pxResult.blob.data = <<255, 255, 255, 255, 0, 0, 0, 128>>

\* C18: in both modes the loop leaves the alpha of every pixel, the number
\* of pixels, the width and the height as they were, and the blob has them.
C18_AlphaAndSizeKept ==
    /\ LoopDone =>
          /\ pxData.width = pxFile.width /\ pxData.height = pxFile.height
          /\ Len(pxData.data) = 4 * pxFile.width * pxFile.height
          /\ \A p \in 1..PixelCount : Out(p, 4) = In(p, 4)
    /\ pxPc = "resolved" =>
          /\ pxResult.blob.width = pxFile.width /\ pxResult.blob.height = pxFile.height
          /\ \A p \in 1..PixelCount : pxResult.blob.data[4 * p] = In(p, 4)

C18_Witness ==
    /\ pxPc = "resolved" /\ pxPass = 1 /\ ~pxBinarize
    /\ pxFile.width = 1 /\ pxFile.height = 2
    /\ In(1, 4) = 128 /\ In(2, 4) = 0
    /\ pxResult.blob.width = 1 /\ pxResult.blob.height = 2
    /\ pxResult.blob.data[4] = 128 /\ pxResult.blob.data[8] = 0
    /\ Out(1, 1) /= In(1, 1)

----------------------------------------------------------------------------
(* The failures of preprocessImage.  No handler of the routes and no        *)
(* handler of the components calls preprocessImage, so what follows is      *)
(* about the function alone.                                                *)

\* preprocessImage settles at most once; it rejects with one of its three
\* messages, with "Image load failed" exactly when the file cannot be
\* decoded; and it makes no provider call.
PreprocessFailsWithOwnMessage ==
    /\ netCalls = 0 /\ clientsBuilt = 0
    /\ pxPc = "rejected" =>
          /\ pxResult.settled /\ ~pxResult.ok
          /\ pxResult.error \in {MsgImageLoadFailed, MsgNoContext, MsgToBlobFailed}
          /\ (pxResult.error = MsgImageLoadFailed) <=> ~pxFile.decodable
    /\ pxPc \in {"loading", "toBlob"} => ~pxResult.settled

PreprocessFailureReached ==
    /\ pxPc = "rejected"
    /\ pxResult.error = MsgToBlobFailed

----------------------------------------------------------------------------
(* Requests in flight together.                                             *)

\* The response of a request that runs alone: the steps of its handler one
\* after the other, with its own mock flag and the outcome of its own
\* provider call.
RECURSIVE RunAlone(_, _, _, _)
RunAlone(r, c, f, outcome) ==
    CASE f.pc = "done" -> f.response[1]
      [] f.pc = "entry" -> RunAlone(r, c, EntryStep(r, c, f, f.req.useMock), outcome)
      [] f.pc = "mockDelay" -> RunAlone(r, c, MockStep(r, f), outcome)
      [] f.pc = "formData" -> RunAlone(r, c, FormDataStep(r, f), outcome)
      [] f.pc = "arrayBuffer" -> RunAlone(r, c, CallStep(r, c, f), outcome)
      [] f.pc \in {"fetch", "chat"} -> RunAlone(r, c, SettleStep(r, c, f, outcome), outcome)

ResponseAlone(f) ==
    RunAlone(route, cfg, [IdleFlight EXCEPT !.pc = "entry", !.req = f.req],
             IF f.outcome = <<>> THEN NoOutcome ELSE f.outcome[1])

EachAsAlone ==
    \A i \in DOMAIN flights :
        flights[i].pc = "done" =>
            /\ flights[i].response = <<ResponseAlone(flights[i])>>
            /\ flights[i].calls <= 1

\* A step changes the locals of one request and nothing of another, and it
\* leaves the configuration as it was loaded.
OneFlightPerStep ==
    /\ cfg' = cfg /\ route' = route
    /\ \A i, j \in DOMAIN flights :
          (i /= j /\ flights'[i] /= flights[i]) => flights'[j] = flights[j]

----------------------------------------------------------------------------
(* C21: bad provider responses at the OCR adapter.                         *)

\* The provider answered the call of this request with a non-success status.
OcrBadStatus == OcrSettled /\ upstream[1].kind = "http" /\ ~upstream[1].ok

\* A block without lines, or a line without words.
LacksStructure(data) ==
    \E i \in 1..Len(ReadBlocks(data)) :
        LET block == ReadBlocks(data)[i]
        IN  IF "lines" \notin DOMAIN block THEN TRUE
            ELSE \E j \in 1..Len(block.lines) : "words" \notin DOMAIN block.lines[j]

\* The provider answered 2xx with valid JSON that lacks the structure.
OcrBadShape ==
    /\ OcrSettled
    /\ upstream[1].kind = "http" /\ upstream[1].ok /\ upstream[1].json
    /\ LacksStructure(upstream[1].data)

\* What performServerSideOCR made of the provider's answer.
AdapterOutcome == OcrAdapterResult(upstream[1])

\* C21: the OCR adapter returns no result for a bad provider response: on a
\* non-success status it fails with the provider error ("Error communicating
\* with OCR service."), and on a 2xx JSON body with a block without lines or
\* a line without words it fails with another error, which is never the
\* error of a non-success status.
C21_BadResponseFails ==
    /\ OcrBadStatus =>
          /\ ~AdapterOutcome.ok
          /\ AdapterOutcome.error = MsgOcrCommunicating
          /\ TheResponse = ErrorResponse(MsgOcrCommunicating, 500)
    /\ OcrBadShape =>
          /\ ~AdapterOutcome.ok
          /\ AdapterOutcome.error /= MsgOcrCommunicating
          /\ TheResponse.status = 500
          /\ TheResponse.body.error /= MsgOcrCommunicating

\* The parts of C21 that hold: no result for either kind of bad response, the
\* provider error whenever the body of the non-success response could be
\* read, and a different error for the body without structure.
BadResponseFailsWhenBodyRead ==
    /\ OcrBadStatus =>
          /\ ~AdapterOutcome.ok
          /\ upstream[1].textOk => AdapterOutcome.error = MsgOcrCommunicating
          /\ ~upstream[1].textOk => AdapterOutcome.error = MsgOcrFailedProcess
    /\ OcrBadShape =>
          /\ ~AdapterOutcome.ok
          /\ AdapterOutcome.error = MsgOcrFailedProcess
          /\ MsgOcrFailedProcess /= MsgOcrCommunicating

\* A non-success response whose body broke off has been answered.
BodyReadFailureReached == OcrBadStatus /\ ~upstream[1].textOk

----------------------------------------------------------------------------
(* C22: one response per request.                                          *)

\* POST has been invoked and has not returned.
Handling == pc \notin {"idle", "done"}

\* C22: on either route every request that POST is invoked with is answered:
\* the handler returns, whatever validation, the configuration check, the
\* provider call, the parsing of its reply or the translation of its error
\* come to; and a request has no response while it is handled and exactly
\* one once the handler has returned.
C22_ExactlyOneResponse ==
    /\ [](Handling => <>Done)
    /\ [](Len(responses) = IF Done THEN 1 ELSE 0)

\* A handler has returned with its one response after the adapter threw.
C22_Witness ==
    /\ Done /\ Len(responses) = 1 /\ Len(upstream) = 1
    /\ TheResponse.status = 500

----------------------------------------------------------------------------
(* The client components of OCRWebApp.tsx: OCRWebApp, which posts to the   *)
(* ocr route, and MeterReaderApp, which posts to the openai route. The     *)
(* component is the one of the route; ui is its React state as committed   *)
(* after each handler, readers the FileReaders at work, fetches the calls  *)
(* of fetch() that have not settled.                                       *)

ClientMAX_FILE_SIZE_MB == 4

ClientMAX_FILE_SIZE_BYTES == ClientMAX_FILE_SIZE_MB * 1024 * 1024

\* A client check that compares whole megabytes.
ClientIsFileSizeValidWholeMB(file) == file.size \div (1024 * 1024) <= ClientMAX_FILE_SIZE_MB

ClientIsFileSizeValid(file) == file.size <= ClientMAX_FILE_SIZE_BYTES

ClientIsFileTypeValid(file) == StartsWith(file.type, <<"image", "/">>)

\* The files the user can pick, told apart by name.
ClientFiles ==
    { [name |-> "a", type |-> <<"image", "/", "png">>, size |-> 1024],
      [name |-> "b", type |-> <<"image", "/", "jpeg">>, size |-> ClientMAX_FILE_SIZE_BYTES],
      [name |-> "c", type |-> <<"text", "/", "plain">>, size |-> 1024],
      [name |-> "d", type |-> <<"image", "/", "png">>, size |-> ClientMAX_FILE_SIZE_BYTES + 1],
      [name |-> "e", type |-> <<>>, size |-> 1024] }

MsgUiInvalidType == <<"Invalid", "file", "type">>

MsgUiFileSize == <<"File", "size", "exceeds">>

MsgUiPreviewFailed == <<"Failed", "to", "load", "image", "preview", ".">>

MsgFailedToFetch == <<"Failed", "to", "fetch">>

MsgApiRequestFailed(status) == <<"API", "request", "failed", ":", StatusText(status)>>

\* useState([]) of OCRWebApp, useState(null) of MeterReaderApp.
NoResults == IF route = "ocr" THEN <<>> ELSE Null

\* The state of a component when it mounts. resultsOf and errorOf are history:
\* the name of the file whose request stored the results or the error, "none"
\* when a handler of the component itself set them.
MountedUi(mockSwitch) ==
    [mounted |-> TRUE, image |-> Null, preview |-> Null, results |-> NoResults, error |-> Null,
     loading |-> FALSE, useMockResults |-> FALSE, mockSwitch |-> mockSwitch,
     resultsOf |-> "none", errorOf |-> "none"]

\* The form posted by handleOCR and handleAnalysis as the server parses it:
\* one part 'image' with the type and the bytes of the file.
Upload(image, useMock) ==
    [useMock |-> useMock,
     body |-> [kind |-> "form", hasImage |-> TRUE, file |-> [type |-> image.type, size |-> image.size]]]

\* The response of the route to the call, when the provider does outcome.
ServerResponse(call, outcome) ==
    RunAlone(route, cfg, [IdleFlight EXCEPT !.pc = "entry", !.req = Upload(call.image, call.useMock)], outcome)

\* handleImageChange of the two components (lines 51-67 and 295-318).
HandleImageChange(u, newImage) ==
    LET v == IF route = "ocr" THEN u
             ELSE [u EXCEPT !.results = Null, !.resultsOf = "none", !.error = Null, !.errorOf = "none"]
        dropped == IF route = "ocr"
                   THEN [v EXCEPT !.image = Null, !.preview = Null, !.results = <<>>, !.resultsOf = "none"]
                   ELSE [v EXCEPT !.image = Null, !.preview = Null]
    IN  IF newImage = Null
        THEN [dropped EXCEPT !.error = Null, !.errorOf = "none"]
        ELSE IF ~ClientIsFileTypeValid(newImage)
        THEN [dropped EXCEPT !.error = Str(MsgUiInvalidType), !.errorOf = "none"]
        ELSE IF ~ClientIsFileSizeValid(newImage)
        THEN [dropped EXCEPT !.error = Str(MsgUiFileSize), !.errorOf = "none"]
        ELSE [v EXCEPT !.image = newImage, !.error = Null, !.errorOf = "none"]

\* Whether handleImageChange goes on to reader.readAsDataURL(newImage).
StartsReader(newImage) ==
    newImage /= Null /\ ClientIsFileTypeValid(newImage) /\ ClientIsFileSizeValid(newImage)

\* handleClear (lines 134-137 and 396-402).
HandleClear(u) ==
    [u EXCEPT !.image = Null, !.preview = Null, !.results = NoResults, !.resultsOf = "none",
              !.error = Null, !.errorOf = "none"]

\* A process button that stays enabled while a request is in flight.
ProcessDisabledNotLoading(u) == u.image = Null

\* disabled={loading || !image} of the process button (lines 190 and 478-482);
\* the button is rendered only with a preview.
ProcessDisabled(u) == u.loading \/ u.image = Null

\* handleOCR 75 and handleAnalysis 326-330, before the call of fetch.
HandleStart(u) ==
    [u EXCEPT !.loading = TRUE, !.results = NoResults, !.resultsOf = "none",
              !.error = Null, !.errorOf = "none"]

\* The catch and the finally of handleOCR (106-111) and handleAnalysis (362-368).
HandleCatch(u, call, message) ==
    LET w == [u EXCEPT !.error = Str(message), !.errorOf = call.image.name, !.loading = FALSE]
    IN  IF route = "ocr" THEN w ELSE [w EXCEPT !.results = Null, !.resultsOf = "none"]

\* handleOCR 95-111 and handleAnalysis 342-368 once response.json() has resolved.
HandleResponse(u, call, response) ==
    LET data == response.body
    IN  IF ~Is2xx(response.status)
        THEN HandleCatch(u, call, IF "error" \in DOMAIN data /\ data.error /= <<>>
                                  THEN data.error ELSE MsgApiRequestFailed(response.status))
        ELSE IF route = "ocr"
        THEN [u EXCEPT !.results = IF "results" \in DOMAIN data THEN data.results ELSE <<>>,
                       !.resultsOf = call.image.name, !.loading = FALSE]
        ELSE IF "results" \in DOMAIN data
        THEN [u EXCEPT !.results = data.results, !.resultsOf = call.image.name,
                       !.error = IF call.useMock THEN Null ELSE @,
                       !.errorOf = IF call.useMock THEN "none" ELSE @,
                       !.loading = FALSE]
        ELSE [u EXCEPT !.results = [meterValue |-> Str(<<"Error">>),
                                    serialNumber |-> Str(<<"Invalid", "API", "Response">>)],
                       !.resultsOf = call.image.name, !.loading = FALSE]

\* The fetches but the i-th.
Without(s, i) == SubSeq(s, 1, i - 1) \o SubSeq(s, i + 1, Len(s))

MaxFetches == 2

InitClient ==
    /\ route \in Routes
    /\ cfg \in (IF route = "ocr" THEN ConcOcrConfigs ELSE ConcAiConfigs)
    /\ pc = "idle"
    /\ req = NoRequest
    /\ responses = <<>>
    /\ netCalls = 0
    /\ clientsBuilt = 0
    /\ trail = <<>>
    /\ upstream = <<>>
    /\ ocrData = [readResult |-> [blocks |-> <<>>]]
    /\ ocrLines = <<>>
    /\ ocrPc = "off"
    /\ ReplyOff
    /\ PixelOff
    /\ flights = <<>>
    /\ \E m \in BOOLEAN : ui = MountedUi(m)
    /\ readers = {}
    /\ fetches = <<>>

\* The user picks a file, takes a photo or cancels the file dialog.
UiImageChange ==
    /\ \E newImage \in ClientFiles \cup {Null} :
          /\ ui' = HandleImageChange(ui, newImage)
          /\ readers' = IF StartsReader(newImage) THEN readers \cup {newImage.name} ELSE readers
    /\ UNCHANGED <<route, cfg, fetches, besidesClient>>

\* reader.onloadend: the preview of the file that was read.
UiReaderLoadEnd ==
    /\ \E n \in readers :
          /\ ui' = [ui EXCEPT !.preview = Str(n)]
          /\ readers' = readers \ {n}
    /\ UNCHANGED <<route, cfg, fetches, besidesClient>>

\* reader.onerror, followed by onloadend with no result.
UiReaderError ==
    /\ \E n \in readers :
          /\ ui' = [ui EXCEPT !.error = Str(MsgUiPreviewFailed), !.errorOf = "none",
                              !.image = Null, !.preview = Null]
          /\ readers' = readers \ {n}
    /\ UNCHANGED <<route, cfg, fetches, besidesClient>>

\* The Clear button, disabled={!image && !preview}.
UiClear ==
    /\ ui.image /= Null \/ ui.preview /= Null
    /\ ui' = HandleClear(ui)
    /\ UNCHANGED <<route, cfg, readers, fetches, besidesClient>>

\* The mock switch, rendered when NEXT_PUBLIC_MOCK_SWITCH is set.
UiToggleMock ==
    /\ ui.mockSwitch
    /\ ui' = [ui EXCEPT !.useMockResults = ~@]
    /\ UNCHANGED <<route, cfg, readers, fetches, besidesClient>>

\* A click on the process button: handleOCR or handleAnalysis up to the
\* await of fetch.
UiProcess ==
    /\ ui.preview /= Null
    /\ ~ProcessDisabled(ui)
    /\ Len(fetches) < MaxFetches
    /\ ui' = HandleStart(ui)
    /\ fetches' = Append(fetches, [image |-> ui.image, useMock |-> ui.useMockResults,
                                   stage |-> "fetch", response |-> <<>>])
    /\ UNCHANGED <<route, cfg, readers, besidesClient>>

\* fetch settles: with the response of the route, or with a network error,
\* which the catch takes.
UiFetchSettles ==
    /\ \E i \in 1..Len(fetches) :
          /\ fetches[i].stage = "fetch"
          /\ \/ \E outcome \in ConcOutcomes(route) :
                   /\ fetches' = [fetches EXCEPT ![i].stage = "json",
                                                 ![i].response = <<ServerResponse(fetches[i], outcome)>>]
                   /\ UNCHANGED ui
             \/ /\ ui' = HandleCatch(ui, fetches[i], MsgFailedToFetch)
                /\ fetches' = Without(fetches, i)
    /\ UNCHANGED <<route, cfg, readers, besidesClient>>

\* response.json() resolves and the handler runs to its end.
UiJsonSettles ==
    /\ \E i \in 1..Len(fetches) :
          /\ fetches[i].stage = "json"
          /\ ui' = HandleResponse(ui, fetches[i], fetches[i].response[1])
          /\ fetches' = Without(fetches, i)
    /\ UNCHANGED <<route, cfg, readers, besidesClient>>

NextClient ==
    \/ UiImageChange
    \/ UiReaderLoadEnd
    \/ UiReaderError
    \/ UiClear
    \/ UiToggleMock
    \/ UiProcess
    \/ UiFetchSettles
    \/ UiJsonSettles

SpecClient == InitClient /\ [][NextClient]_vars

----------------------------------------------------------------------------
(* C23: the client's and the server's validation of a file.                *)

ClientAccepts(file) == ClientIsFileTypeValid(file) /\ ClientIsFileSizeValid(file)

ServerAccepts(file) == isFileTypeValid(file) /\ isFileSizeValid(file)

\* The two 400 responses of the server's type and size validation.
ValidationRejections == {ErrorResponse(MsgInvalidType, 400), ErrorResponse(MsgFileSize, 400)}

\* C23: the client and the server accept the same files (type starts with
\* 'image/' and at most 4*1024*1024 bytes); the selected image of a
\* component is always a file the client accepted; and a file that the
\* component uploads passes the server's validation and is never answered
\* with the type or the size rejection.
C23_SameValidation ==
    /\ \A f \in Files \cup ClientFiles :
          /\ ClientAccepts(f) <=> ServerAccepts(f)
          /\ ClientAccepts(f) <=>
                (StartsWith(f.type, <<"image", "/">>) /\ f.size <= 4 * 1024 * 1024)
    /\ ui.image /= Null => ClientAccepts(ui.image)
    /\ \A i \in 1..Len(fetches) :
          /\ ServerAccepts(Upload(fetches[i].image, fetches[i].useMock).body.file)
          /\ ValidateUpload(Upload(fetches[i].image, fetches[i].useMock).body).ok
          /\ fetches[i].stage = "json" => fetches[i].response[1] \notin ValidationRejections

\* The file of exactly 4*1024*1024 bytes has been uploaded without the mock
\* flag and the server has answered with results.
C23_Witness ==
    \E i \in 1..Len(fetches) :
        /\ fetches[i].image.size = ClientMAX_FILE_SIZE_BYTES
        /\ ~fetches[i].useMock
        /\ fetches[i].stage = "json"
        /\ fetches[i].response[1].status = 200

----------------------------------------------------------------------------
(* C24: the loading flag.                                                  *)

\* C24: in each component loading is true exactly while a request issued by
\* the component is in flight, at most one request is in flight at any
\* time, and loading is false once the request has returned or thrown.
C24_LoadingWhileInFlight ==
    /\ ui.loading <=> Len(fetches) >= 1
    /\ Len(fetches) <= 1

\* A request is in flight, with its response received and not yet read,
\* after the user has dropped or replaced the image it was made for.
C24_Witness ==
    /\ ui.loading
    /\ Len(fetches) = 1 /\ fetches[1].stage = "json"
    /\ ui.image /= fetches[1].image

\* A request has returned and the process button is enabled again.
C24_WitnessAfter ==
    /\ ~ui.loading /\ fetches = <<>>
    /\ ui.resultsOf /= "none" /\ ui.image /= Null /\ ui.preview /= Null

----------------------------------------------------------------------------
(* C25: whose results the component holds.                                 *)

\* C25: the results and the error that a request stored belong to the
\* currently selected image: they are never those of a request made for an
\* image that has since been cleared or replaced.
C25_ResultsOfSelectedImage ==
    /\ (ui.results /= NoResults /\ ui.resultsOf /= "none") =>
          (ui.image /= Null /\ ui.image.name = ui.resultsOf)
    /\ ui.errorOf /= "none" =>
          (ui.image /= Null /\ ui.image.name = ui.errorOf)

\* Results of a request are held and shown while no image is selected.
StaleResultsAfterClear ==
    ui.image = Null /\ ui.results /= NoResults /\ ui.resultsOf /= "none" /\ ~ui.loading

\* MeterReaderApp holds the results of a request made for another image
\* than the selected one.
StaleResultsOtherImage ==
    /\ route = "openai" /\ ui.image /= Null /\ ~ui.loading
    /\ ui.results /= NoResults /\ ui.resultsOf \notin {"none", ui.image.name}

\* An error of a request is held for another selection than the one it was made for.
StaleError ==
    ui.errorOf /= "none" /\ (ui.image = Null \/ ui.image.name /= ui.errorOf)

\* What does hold: results and errors stored by a request are those of the
\* image the request was made for, whatever is selected when they arrive.
ResultsOfRequestedImage ==
    [][\A i \in 1..Len(fetches) :
          (fetches' = Without(fetches, i) /\ ui'.resultsOf /= ui.resultsOf /\ ui'.resultsOf /= "none")
              => ui'.resultsOf = fetches[i].image.name]_vars

====
